---- MODULE Spec2Model ----
(***************************************************************************)
(* A model of the Lark dispatcher of sk-pkg/notify (package lark): the     *)
(* buffered message channel, the queue-consumer goroutine started by       *)
(* StartProcessor, the ants worker pool, the WaitGroup and Close, together *)
(* with the message rewriting done by SubmitMessage.                       *)
(* The dispatch of one message is also modelled step by step: sendMsg, the  *)
(* token of an application (custom function, or getToken with the cache),  *)
(* and the retry loop of sendLarkAPIRequest against any server.            *)
(*                                                                         *)
(* Texts that are substituted into the card template (Title, Content) are  *)
(* sequences of one-character strings, so that the JSON decoding of the    *)
(* rendered template is computed and not assumed.  All other strings are   *)
(* TLA+ strings.                                                           *)
(***************************************************************************)
EXTENDS Integers, Sequences, FiniteSets, TLC

\* ------------------------------------------------------------------ bounds
\* Config.ChannelSize: capacity of the buffered channel n.messages.
ChannelSize == 1
\* Config.PoolSize: capacity of the ants pool.
PoolSize == 1
\* Number of SubmitMessage calls made by the callers.
MaxSubmits == 2
\* Number of StartProcessor calls the callers may make.
MaxProcessors == 2
\* Number of goroutines that resolve tokens at the same time.
MaxThreads == 2
\* Number of calls each of them makes.
MaxCalls == 2
\* The clock advances TickSeconds at a time, MaxTicks times.
TickSeconds == 50
MaxTicks == 3
\* Number of messages sent through the Manager.
MaxSends == 1

\* -------------------------------------------------------- program constants
initIndex == 10000000
indexBase == 36
\* sendLarkAPIRequest: the default of maxRetries, the status that is retried
\* and the default of extractResetTime.
defaultMaxRetries == 3
statusTooManyRequests == 429
defaultResetTime == 60
\* The maxRetries that getToken and the two senders pass.
callerMaxRetries == 3
\* getToken caches the token for rs.Expire minus this many seconds.
expireMargin == 100

\* ------------------------------------------------------------ configuration
\* The dispatcher built by New from a valid Config: one webhook target, one
\* application target with the built-in token flow, the webhook as default.
botWebhooks == {"ops"}
apps == {"app", "capp"}
\* The application targets configured with a custom Token function.
customToken == {"capp"}
defaultSendChannelName == "ops"

\* ------------------------------------------------------------------ msgid
Digits36 ==
  << "0", "1", "2", "3", "4", "5", "6", "7", "8", "9", "a", "b", "c", "d", "e",
     "f", "g", "h", "i", "j", "k", "l", "m", "n", "o", "p", "q", "r", "s", "t",
     "u", "v", "w", "x", "y", "z" >>

\* strconv.FormatUint(n, indexBase)
RECURSIVE FormatUint(_)
FormatUint(n) ==
  IF n < indexBase THEN Digits36[n + 1]
  ELSE FormatUint(n \div indexBase) \o Digits36[(n % indexBase) + 1]

\* m.prefix as set by updatePrefix: hostname "-" timestamp "-".
prefix == "host-ts-"

\* ID.New for the sequence number the atomic increment returned.
NewID(newIndex) == prefix \o FormatUint(newIndex)

\* ------------------------------------------------------------- card content
\* Content values.  kind "string" is a Go string (text holds its characters);
\* kind "other" is any non-string value (a map, a struct, a number); kind
\* "card" is the map[string]any decoded from the rendered card template.
StrContent(t) == [kind |-> "string", text |-> t, title |-> <<>>, color |-> "", time |-> ""]
OtherContent == [kind |-> "other", text |-> <<>>, title |-> <<>>, color |-> "", time |-> ""]
CardContent(t, ti, c) == [kind |-> "card", text |-> t, title |-> ti, color |-> c, time |-> "now"]

\* levelColorMap without its entry for "warn".
LevelColorNoWarn(level) ==
  CASE level = "success" -> "green"
    [] level = "error" -> "red"
    [] OTHER -> "blue"

\* levelColorMap with the "blue" default of generateTextCardMsgWithLevel.
LevelColor(level) ==
  CASE level = "success" -> "green"
    [] level = "error" -> "red"
    [] level = "warn" -> "yellow"
    [] OTHER -> "blue"

\* What encoding/json decodes when the characters s stand between the two
\* quotes of a string literal of the template: an unescaped quote ends the
\* literal early and leaves text no JSON document continues with, a backslash
\* starts an escape, and a backslash at the end escapes the closing quote.
RECURSIVE JsonUnquote(_)
JsonUnquote(s) ==
  IF s = <<>> THEN [ok |-> TRUE, val |-> <<>>]
  ELSE IF Head(s) = "\"" THEN [ok |-> FALSE, val |-> <<>>]
  ELSE IF Head(s) = "\\" THEN
    IF Len(s) < 2 THEN [ok |-> FALSE, val |-> <<>>]
    ELSE LET e == s[2]
             rest == JsonUnquote(SubSeq(s, 3, Len(s)))
             c == CASE e = "n" -> "\n"
                    [] e = "\"" -> "\""
                    [] e = "\\" -> "\\"
                    [] OTHER -> "?"
         IN IF e \in {"n", "\"", "\\"} /\ rest.ok
              THEN [ok |-> TRUE, val |-> <<c>> \o rest.val]
              ELSE [ok |-> FALSE, val |-> <<>>]
  ELSE LET rest == JsonUnquote(Tail(s))
       IN IF rest.ok THEN [ok |-> TRUE, val |-> <<Head(s)>> \o rest.val]
          ELSE [ok |-> FALSE, val |-> <<>>]

\* generateTextCardMsgWithLevel: the template is executed with the raw
\* content and title (text/template does not escape) and the result is
\* decoded as JSON; err is the json.Unmarshal failure.
generateTextCardMsgWithLevel(level, title, content) ==
  LET c == JsonUnquote(content)
      t == JsonUnquote(title)
  IN IF c.ok /\ t.ok
       THEN [err |-> FALSE, card |-> CardContent(c.val, t.val, LevelColor(level))]
       ELSE [err |-> TRUE, card |-> OtherContent]

\* ---------------------------------------------------------------- messages
Message(id, ch, to, ty, lv, ti, co) ==
  [ID |-> id, SendChannelName |-> ch, SendTo |-> to, MsgType |-> ty,
   MsgLevel |-> lv, Title |-> ti, Content |-> co]

shouldGenerateCardMsgNoTitle(message) ==
  message.MsgLevel # "" /\ (message.MsgType = "" \/ message.MsgType = "text")

shouldGenerateCardMsg(message) ==
  message.MsgLevel # "" /\ message.Title # <<>>
    /\ (message.MsgType = "" \/ message.MsgType = "text")

\* PrepareMessage with the generated ID kept out of the message.
PrepareMessageDropID(message, id) ==
  IF shouldGenerateCardMsg(message) /\ message.Content.kind = "string"
    THEN LET r == generateTextCardMsgWithLevel(message.MsgLevel, message.Title,
                                               message.Content.text)
         IN IF r.err THEN [err |-> TRUE, msg |-> message]
            ELSE [err |-> FALSE,
                  msg |-> [message EXCEPT !.MsgType = "interactive", !.Content = r.card]]
    ELSE [err |-> FALSE, msg |-> message]

\* PrepareMessage with the render failure dropped: the message goes on to
\* the channel as it was.
PrepareMessageIgnoreErr(message, id) ==
  LET m1 == [message EXCEPT !.ID = id]
  IN IF shouldGenerateCardMsg(m1) /\ m1.Content.kind = "string"
       THEN LET r == generateTextCardMsgWithLevel(m1.MsgLevel, m1.Title, m1.Content.text)
            IN IF r.err THEN [err |-> FALSE, msg |-> m1]
               ELSE [err |-> FALSE,
                     msg |-> [m1 EXCEPT !.MsgType = "interactive", !.Content = r.card]]
       ELSE [err |-> FALSE, msg |-> m1]

\* The part of SubmitMessage before the channel send: id is the message ID
\* after the "generate if empty" step.  err is the render failure; msg is the
\* message the call goes on to send when err is FALSE.
PrepareMessage(message, id) ==
  LET m1 == [message EXCEPT !.ID = id]
  IN IF shouldGenerateCardMsg(m1) /\ m1.Content.kind = "string"
       THEN LET r == generateTextCardMsgWithLevel(m1.MsgLevel, m1.Title, m1.Content.text)
            IN IF r.err THEN [err |-> TRUE, msg |-> m1]
               ELSE [err |-> FALSE,
                     msg |-> [m1 EXCEPT !.MsgType = "interactive", !.Content = r.card]]
       ELSE [err |-> FALSE, msg |-> m1]

\* ---------------------------------------------------------------- dispatch
\* sendLarkAPIRequest followed by the response-code check, as seen by the
\* worker: net is what the network did ("ok": code 0; "fail": transport
\* error, retries exhausted or a non-zero code).
Deliver(net) == IF net = "ok" THEN "ok" ELSE "error"

\* sendBotWebhookMessage: a type assertion on a non-string Content panics.
sendBotWebhookMessage(m, net) ==
  IF m.MsgType \in {"text", "share_chat", "image"} /\ m.Content.kind # "string"
    THEN "panic"
    ELSE Deliver(net)

\* sendLarkAppMessage
sendLarkAppMessage(m, net) ==
  IF m.MsgType \in {"text", "image", "audio", "file", "media", "sticker",
                    "share_chat", "share_user"}
    THEN IF m.Content.kind # "string" THEN "panic" ELSE Deliver(net)
  ELSE IF m.MsgType \in {"post", "interactive", "system"} THEN Deliver(net)
  ELSE "error"

\* sendMsg: tok is the outcome of a.token(), net that of the send request.
sendMsg(m, tok, net) ==
  LET channel == IF m.SendChannelName = "" THEN defaultSendChannelName
                 ELSE m.SendChannelName
  IN IF channel \in botWebhooks THEN sendBotWebhookMessage(m, net)
     ELSE IF channel \in apps THEN
       IF m.SendTo = "" THEN "error"
       ELSE IF tok # "ok" THEN "error"
       ELSE sendLarkAppMessage(m, net)
     ELSE "error"

NetOutcomes == {"ok", "fail"}

\* ------------------------------------------------------------------ inputs
\* The messages the callers submit while the dispatcher runs: a levelled text
\* with a title (sent as a card to the default webhook) and a text whose
\* Content is not a string.
SmallMessages ==
  { Message("", "", "", "text", "info", <<"a">>, StrContent(<<"a">>)),
    Message("existing_id", "", "", "text", "", <<>>, OtherContent) }

Texts == { <<>>, <<"a">>, <<"\"">>, <<"\\", "n">>, <<"\\", "a">> }
Titles == { <<>>, <<"a">>, <<"\"">> }

AllMessages ==
  { Message(id, ch, to, ty, lv, ti, co) :
      id \in {"", "existing_id"}, ch \in {"", "app"}, to \in {"", "u"},
      ty \in {"", "text", "interactive", "audio"},
      lv \in {"", "info", "error"}, ti \in Titles,
      co \in {StrContent(t) : t \in Texts} \cup {OtherContent} }

NoMessage == Message("", "", "", "", "", <<>>, OtherContent)

\* A text that needs no rendering.
PlainMessage == Message("", "", "", "text", "", <<>>, StrContent(<<"a">>))

\* ------------------------------------------------------------------- state
VARIABLES
  inputs,      \* the messages the callers pass to SubmitMessage
  index,       \* msgid.ID.index
  sub,         \* one SubmitMessage call per caller: its position and values
  messages,    \* n.messages: the buffered channel, oldest first
  closed,      \* n.messages has been closed
  cons,        \* the goroutines started by StartProcessor
  wg,          \* n.wg: the WaitGroup counter
  inflight,    \* n.pool: the tasks running poolFunc (inside sendMsg)
  poolClosed,  \* n.pool has been released
  closePc,     \* the position of the Close call
  startedAtClose, \* StartProcessor had been called when Close was called
  hist         \* per submitted message: what the pool did with it

vars == << inputs, index, sub, messages, closed, cons, wg, inflight,
           poolClosed, closePc, startedAtClose, hist >>

Subs == 1 .. MaxSubmits

\* An element of the channel: the message and the call that sent it.
Item(i, m) == [seq |-> i, m |-> m]

IdleSub == [pc |-> "idle", in |-> NoMessage, msg |-> NoMessage, id |-> "", err |-> FALSE]
NoCons == [recv |-> 0, exit |-> 0, add |-> {}, invoke |-> {}]
NoHist == [invoked |-> 0, done |-> 0, outcome |-> "none"]

\* ---------------------------------------------------- tokens and requests
VARIABLES
  clock,       \* time.Now(), in seconds
  cache,       \* n.cache: the entries of the in-memory cache, by key
  th,          \* the goroutines that dispatch, resolve tokens or send requests
  ledger,      \* the tokens the platform has issued: when, and their expire
  lastSet,     \* the SetString that completed last, and what followed it
  config,      \* the Config that was handed to New
  built,       \* what New returned for it: the error, or the notify
  routed,      \* the channel the built notify's sendMsg looked up last
  mgr          \* the Manager: its defaults, its message IDs, its dispatchers

xvars == << clock, cache, th, ledger, lastSet, config, built, routed, mgr >>
cvars == << config, built, routed, mgr >>

Threads == 1 .. MaxThreads

\* fmt.Sprintf(tokenCacheKey, appID) for the one built-in application.
tokenCacheKey == "lark:token:cli_app"
CacheKeys == {tokenCacheKey}

\* A value of the cache's map: item{value, expiration}; absent keys are NoItem.
CacheItem(v, exp) == [present |-> TRUE, value |-> v, expiration |-> exp]
NoItem == [present |-> FALSE, value |-> 0, expiration |-> 0]

\* What sendLarkAPIRequest returned: an error, or the status and the body.
NoRes == [err |-> "pending", status |-> 0, body |-> [none |-> TRUE]]
NoBody == [none |-> TRUE]
NoRequest == [url |-> "", auth |-> 0, body |-> NoBody]

\* The SetString calls so far (n), the value, the expiration argument and the
\* time of the last of them, and whether a GetString has returned
\* ErrKeyExpired since.
NoSet == [n |-> 0, value |-> 0, expiration |-> 0, at |-> 0, expired |-> FALSE]

\* No Config handed over, no notify built, no message routed yet.
NoConfig == [none |-> TRUE]
NoNotify == [none |-> TRUE]
NoBuilt == [called |-> FALSE, err |-> "", n |-> NoNotify]
NoRoute == [sent |-> FALSE, name |-> "", channel |-> "", kind |-> ""]

\* What Manager.submit returned last, and the errors its channels returned.
NoSent == [done |-> FALSE, msgID |-> "", err |-> "", chanErrs |-> 0]
\* m.messageID before NewMessageID: the sequence number at the width of the
\* model, the number of prefixes made so far, and the goroutine that holds
\* m.mu (0: none).
NoID == [made |-> FALSE, index |-> 0, prefix |-> 0, mu |-> 0]
\* No Manager yet: New of the manager package has not been called.  index
\* is the sequence number of m.messageID while it is far from the wrap; id
\* is m.messageID followed step by step.
NoManager ==
  [made |-> FALSE, defaultChannel |-> "", defaultLevel |-> "",
   index |-> initIndex, lark |-> <<>>, ding |-> <<>>, sends |-> 0,
   res |-> NoSent, id |-> NoID]

IdleTh ==
  [pc |-> "idle", op |-> "none", m |-> NoMessage, app |-> "",
   req |-> NoRequest, arg |-> 0, maxRetries |-> 0, retry |-> 0,
   attempts |-> 0, seen |-> <<>>, resets |-> <<>>, slept |-> <<>>,
   log |-> <<>>, res |-> NoRes,
   tok |-> 0, exp |-> 0, hit |-> FALSE, at |-> 0, live |-> FALSE,
   want |-> 0, never |-> FALSE,
   fn |-> 0, cacheOps |-> 0, out |-> "", calls |-> 0]

XIdle ==
  /\ clock = 0
  /\ cache = [k \in CacheKeys |-> NoItem]
  /\ th = [t \in Threads |-> IdleTh]
  /\ ledger = <<>>
  /\ lastSet = NoSet
  /\ config = NoConfig
  /\ built = NoBuilt
  /\ routed = NoRoute
  /\ mgr = NoManager

InitWith(ins) ==
  /\ XIdle
  /\ inputs = ins
  /\ index = initIndex
  /\ sub = [i \in Subs |-> IdleSub]
  /\ messages = <<>>
  /\ closed = FALSE
  /\ cons = NoCons
  /\ wg = 0
  /\ inflight = {}
  /\ poolClosed = FALSE
  /\ closePc = "idle"
  /\ startedAtClose = FALSE
  /\ hist = [i \in Subs |-> NoHist]

Init == InitWith(SmallMessages)

\* ----------------------------------------------------------- SubmitMessage
\* SubmitMessage up to the channel send: the ID is generated when absent and
\* the card is rendered; a render failure returns (message.ID, err).
\* Callers are interchangeable, so they call in the order of their numbers.
SubmitCall(i) ==
  /\ sub[i].pc = "idle"
  /\ IF i = 1 THEN TRUE ELSE sub[i - 1].pc # "idle"
  /\ \E message \in inputs :
       LET newIndex == index + 1  \* atomic.AddUint64; far from the wrap at 2^64
           id == IF message.ID = "" THEN NewID(newIndex) ELSE message.ID
           p == PrepareMessage(message, id)
       IN /\ index' = IF message.ID = "" THEN newIndex ELSE index
          /\ sub' = [sub EXCEPT ![i] =
                       [pc |-> IF p.err THEN "error" ELSE "send",
                        in |-> message, msg |-> p.msg, id |-> id, err |-> p.err]]
  /\ UNCHANGED << xvars, inputs, messages, closed, cons, wg, inflight, poolClosed,
                  closePc, startedAtClose, hist >>

\* The channel send without the capacity of the buffer.
SubmitSendUnbounded(i) ==
  /\ sub[i].pc = "send"
  /\ IF closed
       THEN /\ sub' = [sub EXCEPT ![i].pc = "panic"]
            /\ UNCHANGED messages
       ELSE /\ messages' = Append(messages, Item(i, sub[i].msg))
            /\ sub' = [sub EXCEPT ![i].pc = "done"]
  /\ UNCHANGED << xvars, inputs, index, closed, cons, wg, inflight, poolClosed,
                  closePc, startedAtClose, hist >>

\* The send on a stack in place of the channel: the newest message first.
SubmitSendStack(i) ==
  /\ sub[i].pc = "send"
  /\ IF closed
       THEN /\ sub' = [sub EXCEPT ![i].pc = "panic"]
            /\ UNCHANGED messages
       ELSE /\ messages' = << Item(i, sub[i].msg) >> \o messages
            /\ sub' = [sub EXCEPT ![i].pc = "done"]
  /\ UNCHANGED << xvars, inputs, index, closed, cons, wg, inflight, poolClosed,
                  closePc, startedAtClose, hist >>

\* The channel send without the closed check.
SubmitSendIgnoreClosed(i) ==
  /\ sub[i].pc = "send"
  /\ Len(messages) < ChannelSize
  /\ messages' = Append(messages, Item(i, sub[i].msg))
  /\ sub' = [sub EXCEPT ![i].pc = "done"]
  /\ UNCHANGED << xvars, inputs, index, closed, cons, wg, inflight, poolClosed,
                  closePc, startedAtClose, hist >>

\* n.messages <- message; return message.ID, nil.  A send on a closed channel
\* panics, also when the sender was already blocked; a send on a full open
\* channel blocks (the action is not enabled).
SubmitSend(i) ==
  /\ sub[i].pc = "send"
  /\ IF closed
       THEN /\ sub' = [sub EXCEPT ![i].pc = "panic"]
            /\ UNCHANGED messages
       ELSE /\ Len(messages) < ChannelSize
            /\ messages' = Append(messages, Item(i, sub[i].msg))
            /\ sub' = [sub EXCEPT ![i].pc = "done"]
  /\ UNCHANGED << xvars, inputs, index, closed, cons, wg, inflight, poolClosed,
                  closePc, startedAtClose, hist >>

\* ---------------------------------------------------------- StartProcessor
\* The consumer goroutines run the same loop and differ only in the message
\* they hold, so cons counts those waiting to receive (recv) and those that
\* left the loop (exit), and holds the messages of those before n.wg.Add
\* (add) and before n.pool.Invoke (invoke).
NumStarted ==
  cons.recv + cons.exit + Cardinality(cons.add) + Cardinality(cons.invoke)

\* go func() { for m := range n.messages { ... } }()
StartProcessor ==
  /\ NumStarted < MaxProcessors
  /\ cons' = [cons EXCEPT !.recv = @ + 1]
  /\ UNCHANGED << xvars, inputs, index, sub, messages, closed, wg, inflight,
                  poolClosed, closePc, startedAtClose, hist >>

\* The receive that leaves the message in the channel.
ConsumerRecvKeep ==
  /\ cons.recv > 0
  /\ Len(messages) > 0
  /\ cons' = [cons EXCEPT !.recv = @ - 1, !.add = @ \cup {Head(messages)}]
  /\ UNCHANGED << xvars, inputs, index, sub, messages, closed, wg, inflight,
                  poolClosed, closePc, startedAtClose, hist >>

\* m := range n.messages: receive the oldest message, or leave the loop when
\* the channel is closed and empty.
ConsumerRecv ==
  /\ cons.recv > 0
  /\ IF Len(messages) > 0
       THEN /\ cons' = [cons EXCEPT !.recv = @ - 1, !.add = @ \cup {Head(messages)}]
            /\ messages' = Tail(messages)
       ELSE /\ closed
            /\ cons' = [cons EXCEPT !.recv = @ - 1, !.exit = @ + 1]
            /\ UNCHANGED messages
  /\ UNCHANGED << xvars, inputs, index, sub, closed, wg, inflight, poolClosed,
                  closePc, startedAtClose, hist >>

\* n.wg.Add(1)
ConsumerAdd(it) ==
  /\ it \in cons.add
  /\ wg' = wg + 1
  /\ cons' = [cons EXCEPT !.add = @ \ {it}, !.invoke = @ \cup {it}]
  /\ UNCHANGED << xvars, inputs, index, sub, messages, closed, inflight, poolClosed,
                  closePc, startedAtClose, hist >>

\* Invoke that starts a worker whatever the number of running workers.
ConsumerInvokeNoLimit(it) ==
  /\ it \in cons.invoke
  /\ IF poolClosed
       THEN /\ hist' = [hist EXCEPT ![it.seq].outcome = "rejected"]
            /\ UNCHANGED inflight
       ELSE /\ inflight' = inflight \cup {it}
            /\ hist' = [hist EXCEPT ![it.seq].invoked = @ + 1]
  /\ cons' = [cons EXCEPT !.invoke = @ \ {it}, !.recv = @ + 1]
  /\ UNCHANGED << xvars, inputs, index, sub, messages, closed, wg, poolClosed,
                  closePc, startedAtClose >>

\* err := n.pool.Invoke(m): ErrPoolClosed once the pool is released (the
\* error is logged and the message is gone); otherwise the task goes to a
\* worker, and Invoke blocks while PoolSize workers are running.
ConsumerInvoke(it) ==
  /\ it \in cons.invoke
  /\ IF poolClosed
       THEN /\ hist' = [hist EXCEPT ![it.seq].outcome = "rejected"]
            /\ UNCHANGED inflight
       ELSE /\ Cardinality(inflight) < PoolSize
            /\ inflight' = inflight \cup {it}
            /\ hist' = [hist EXCEPT ![it.seq].invoked = @ + 1]
  /\ cons' = [cons EXCEPT !.invoke = @ \ {it}, !.recv = @ + 1]
  /\ UNCHANGED << xvars, inputs, index, sub, messages, closed, wg, poolClosed,
                  closePc, startedAtClose >>

ConsumerAddStep == \E it \in cons.add : ConsumerAdd(it)
ConsumerInvokeStep == \E it \in cons.invoke : ConsumerInvoke(it)

\* ------------------------------------------------------------- pool worker
\* The worker that does not call wg.Done when sendMsg returned an error.
WorkerReturnNoDoneOnError(e) ==
  /\ e \in inflight
  /\ \E tok \in NetOutcomes, net \in NetOutcomes :
       LET r == sendMsg(e.m, tok, net)
       IN /\ wg' = IF r = "ok" THEN wg - 1 ELSE wg
          /\ hist' = [hist EXCEPT ![e.seq].outcome = r,
                                  ![e.seq].done = IF r = "ok" THEN @ + 1 ELSE @]
  /\ inflight' = inflight \ {e}
  /\ UNCHANGED << xvars, inputs, index, sub, messages, closed, cons, poolClosed,
                  closePc, startedAtClose >>

\* The worker that never goes back to the pool.
WorkerReturnLeak(e) ==
  /\ e \in inflight
  /\ hist[e.seq].outcome = "none"
  /\ \E tok \in NetOutcomes, net \in NetOutcomes :
       LET r == sendMsg(e.m, tok, net)
       IN /\ wg' = IF r = "panic" THEN wg ELSE wg - 1
          /\ hist' = [hist EXCEPT ![e.seq].outcome = r,
                                  ![e.seq].done = IF r = "panic" THEN @ ELSE @ + 1]
  /\ UNCHANGED << xvars, inputs, index, sub, messages, closed, cons, inflight,
                  poolClosed, closePc, startedAtClose >>

\* The pool function: sendMsg(msg), log the error, n.wg.Done().  A panic in
\* sendMsg unwinds the pool function before n.wg.Done(); the pool's worker
\* recovers it and gives its slot back.
WorkerReturn(e) ==
  /\ e \in inflight
  /\ \E tok \in NetOutcomes, net \in NetOutcomes :
       LET r == sendMsg(e.m, tok, net)
       IN /\ wg' = IF r = "panic" THEN wg ELSE wg - 1
          /\ hist' = [hist EXCEPT ![e.seq].outcome = r,
                                  ![e.seq].done = IF r = "panic" THEN @ ELSE @ + 1]
  /\ inflight' = inflight \ {e}
  /\ UNCHANGED << xvars, inputs, index, sub, messages, closed, cons, poolClosed,
                  closePc, startedAtClose >>

WorkerStep == \E e \in inflight : WorkerReturn(e)

\* ------------------------------------------------------------------- Close
\* close(n.messages)
CloseCall ==
  /\ closePc = "idle"
  /\ closed' = TRUE
  /\ closePc' = "wait"
  /\ startedAtClose' = (NumStarted > 0)
  /\ UNCHANGED << xvars, inputs, index, sub, messages, cons, wg, inflight,
                  poolClosed, hist >>

\* n.wg.Wait() returns when the counter is zero.
CloseWait ==
  /\ closePc = "wait"
  /\ wg = 0
  /\ closePc' = "release"
  /\ UNCHANGED << xvars, inputs, index, sub, messages, closed, cons, wg, inflight,
                  poolClosed, startedAtClose, hist >>

\* n.pool.Release(); Close returns.
CloseRelease ==
  /\ closePc = "release"
  /\ poolClosed' = TRUE
  /\ closePc' = "done"
  /\ UNCHANGED << xvars, inputs, index, sub, messages, closed, cons, wg, inflight,
                  startedAtClose, hist >>

\* ------------------------------------------------------- sendLarkAPIRequest
\* strconv.Atoi on a sequence of characters: an optional sign and digits.
DecDigits == << "0", "1", "2", "3", "4", "5", "6", "7", "8", "9" >>
IsDigit(c) == \E k \in 1 .. 10 : DecDigits[k] = c
DigitVal(c) == (CHOOSE k \in 1 .. 10 : DecDigits[k] = c) - 1

RECURSIVE ParseDigits(_, _)
ParseDigits(s, acc) ==
  IF s = <<>> THEN acc ELSE ParseDigits(Tail(s), acc * 10 + DigitVal(Head(s)))

Atoi(s) ==
  LET signed == s # <<>> /\ Head(s) \in {"+", "-"}
      digits == IF signed THEN Tail(s) ELSE s
  IN IF digits = <<>> \/ \E k \in 1 .. Len(digits) : ~IsDigit(digits[k])
       THEN [ok |-> FALSE, val |-> 0]
       ELSE [ok |-> TRUE,
             val |-> IF Head(s) = "-" THEN 0 - ParseDigits(digits, 0)
                     ELSE ParseDigits(digits, 0)]

\* resetHeaders is the list of values found under the header key.
extractResetTime(resetHeaders) ==
  IF Len(resetHeaders) = 0 THEN defaultResetTime
  ELSE LET r == Atoi(resetHeaders[1])
       IN IF r.ok THEN r.val ELSE defaultResetTime

\* The key sendLarkAPIRequest looks up, and the names under which a server
\* sends the header.  net/http stores every response header under its
\* canonical name, and resty's resp.Header() is that map.
resetHeaderKey == "x-ogw-ratelimit-reset"
HeaderNames == {"x-ogw-ratelimit-reset", "X-Ogw-Ratelimit-Reset"}
CanonicalHeaderKey(name) ==
  IF name \in HeaderNames THEN "X-Ogw-Ratelimit-Reset" ELSE name

\* The reset headers a 429 response may carry: none, or one value.
ResetValues == { << "5" >>, <<>>, << "s", "o", "o", "n" >> }
NoHeaders == [k \in {} |-> <<>>]
ResponseHeaders ==
  {NoHeaders} \cup
  { (CanonicalHeaderKey(name) :> << v >>) : name \in HeaderNames, v \in ResetValues }

\* resp.Headers[key] of a Go map: the zero value when the key is absent.
HeaderValues(headers, key) ==
  IF key \in DOMAIN headers THEN headers[key] ELSE <<>>

\* What executeRequest brought: a status, or this when it failed.
transportFailed == 0
\* msgid.ID.index is a uint64; the model follows the wrap on a counter of
\* three bits, with initIndex three increments before the wrap.
indexModulus == 8
scaledInitIndex == 5
\* validateConfig: a size left at 0 becomes this many times GOMAXPROCS.
defaultSizeFactor == 10
\* The statuses a server answers with.
Statuses == {200, 500, statusTooManyRequests}

\* The first statement of sendLarkAPIRequest.
NormRetriesKeep(maxRetries) == maxRetries

NormRetries(maxRetries) ==
  IF maxRetries <= 0 THEN defaultMaxRetries ELSE maxRetries

\* One turn of the loop with every status from 300 on retried like a 429.
LoopTurnRetryNon2xx(retry, maxRetries, failed, status) ==
  IF failed THEN "error"
  ELSE IF status >= 300
    THEN IF retry < maxRetries THEN "sleep" ELSE "rate_limit"
    ELSE "return"

\* One turn of the loop with a transport failure retried like a 429.
LoopTurnRetryOnError(retry, maxRetries, failed, status) ==
  IF failed \/ status = statusTooManyRequests
    THEN IF retry < maxRetries THEN "sleep"
         ELSE IF failed THEN "error" ELSE "rate_limit"
    ELSE "return"

\* One turn of the loop of sendLarkAPIRequest after executeRequest: failed is
\* its error, status the status of its response.
LoopTurn(retry, maxRetries, failed, status) ==
  IF failed THEN "error"
  ELSE IF status = statusTooManyRequests
    THEN IF retry < maxRetries THEN "sleep" ELSE "rate_limit"
    ELSE "return"

\* ------------------------------------------------------------------ cache
\* cache.SetString at time now: an expiration that is not positive is stored
\* as 0, which GetString reads as "never expires".
SetString(c, key, value, expiration, now) ==
  [c EXCEPT ![key] =
     CacheItem(value, IF expiration > 0 THEN now + expiration ELSE 0)]

\* What GetString finds at time now, before it evicts or returns.
Lookup(c, key, now) ==
  IF ~c[key].present THEN "not_found"
  ELSE IF c[key].expiration # 0 /\ now > c[key].expiration THEN "expired"
  ELSE "value"

\* A Delete that leaves the key in the map.
DeleteNothing(c, key) == c

\* buckets.Delete(key).
Delete(c, key) == [c EXCEPT ![key] = NoItem]

\* ------------------------------------------------------------- the platform
\* The bodies the endpoints answer with: not JSON, an error code, or code 0;
\* the token endpoint's code 0 carries a token and its expire in seconds.
RespBody(json, code, token, expire) ==
  [json |-> json, code |-> code, token |-> token, expire |-> expire]
ExpireValues == {100, 200}
MessageBodies == { RespBody(FALSE, 0, 0, 0), RespBody(TRUE, 9499, 0, 0), RespBody(TRUE, 0, 0, 0) }
TokenBodies(token) ==
  { RespBody(FALSE, 0, 0, 0), RespBody(TRUE, 9499, 0, 0) } \cup
  { RespBody(TRUE, 0, token, e) : e \in ExpireValues }

\* The endpoints: the webhook URL of a webhook target, the message API and
\* the token API of the application targets.
WebhookURL(channel) == "hook/" \o channel
msgAPI == "open-apis/im/v1/messages"
appTokenAPI == "open-apis/auth/v3/app_access_token/internal"

\* The token a custom Token function returns.
CustomToken == 0 - 1

\* A request passed to executeRequest: the URL, the bearer token of the
\* Authorization header (0: none) and the body.
Request(url, auth, body) == [url |-> url, auth |-> auth, body |-> body]

\* ----------------------------------------------------------------- sendMsg
\* The channel name sendMsg dispatches to, with the default ignored.
ResolveChannelIgnoreName(m) == defaultSendChannelName

ResolveChannel(m) ==
  IF m.SendChannelName = "" THEN defaultSendChannelName ELSE m.SendChannelName

\* The two map lookups with an unknown name sent to the default webhook.
ChannelKindFallback(channel) ==
  IF channel \in botWebhooks THEN "webhook"
  ELSE IF channel \in apps THEN "app"
  ELSE "webhook"

\* The two map lookups of sendMsg: webhooks first, then applications.
ChannelKind(channel) ==
  IF channel \in botWebhooks THEN "webhook"
  ELSE IF channel \in apps THEN "app"
  ELSE "none"

\* The application branch without the check of SendTo.
AppPrecheckNoRecipient(m) == "token"

\* The application branch of sendMsg before a.token() is called.
AppPrecheck(m) == IF m.SendTo = "" THEN "missing_recipient" ELSE "token"

\* New with lark.Token ignored: every application resolves through getToken.
TokenSourceBuiltin(app) == "getToken"

\* a.token as New sets it: the configured function, or the getToken closure.
TokenSource(app) == IF app \in customToken THEN "custom" ELSE "getToken"

\* sendBotWebhookMessage with every type outside its switch sent as a text.
BotWebhookParamsAsText(m) ==
  LET str == m.Content.kind = "string"
      ty == m.MsgType
  IN IF ty \notin {"post", "interactive"} /\ ~str
       THEN [panic |-> TRUE, body |-> NoBody]
     ELSE [panic |-> FALSE, body |->
       IF ty = "post" THEN [msg_type |-> ty, content |-> [post |-> m.Content]]
       ELSE IF ty = "share_chat"
         THEN [msg_type |-> ty, content |-> [share_chat_id |-> m.Content.text]]
       ELSE IF ty = "image"
         THEN [msg_type |-> ty, content |-> [image_key |-> m.Content.text]]
       ELSE IF ty = "interactive" THEN [msg_type |-> ty, card |-> m.Content]
       ELSE [msg_type |-> ty, content |-> [text |-> m.Content.text]]]

\* The params of sendBotWebhookMessage; panic is the failed m.Content.(string).
BotWebhookParams(m) ==
  LET str == m.Content.kind = "string"
      ty == m.MsgType
  IN IF ty \in {"text", "share_chat", "image"} /\ ~str
       THEN [panic |-> TRUE, body |-> NoBody]
     ELSE [panic |-> FALSE, body |->
       IF ty = "text" THEN [msg_type |-> ty, content |-> [text |-> m.Content.text]]
       ELSE IF ty = "post" THEN [msg_type |-> ty, content |-> [post |-> m.Content]]
       ELSE IF ty = "share_chat"
         THEN [msg_type |-> ty, content |-> [share_chat_id |-> m.Content.text]]
       ELSE IF ty = "image"
         THEN [msg_type |-> ty, content |-> [image_key |-> m.Content.text]]
       ELSE IF ty = "interactive" THEN [msg_type |-> ty, card |-> m.Content]
       ELSE [msg_type |-> ty]]

\* The message types of the switch of sendLarkAppMessage, and those whose
\* Content is asserted to be a string.
AppMsgTypes ==
  {"text", "image", "audio", "file", "media", "sticker", "share_chat",
   "share_user", "post", "interactive", "system"}
AppStringTypes == AppMsgTypes \ {"post", "interactive", "system"}

\* The switch with the default branch marshalling the Content as it is.
AppContentAnyType(m) ==
  IF m.MsgType \in AppStringTypes /\ m.Content.kind # "string"
    THEN [kind |-> "panic", content |-> NoBody]
  ELSE [kind |-> "ok", content |-> m.Content]

\* The switch of sendLarkAppMessage: the marshalled content, a panic of
\* m.Content.(string), or "invalid message type".
AppContent(m) ==
  LET ty == m.MsgType
  IN IF ty \notin AppMsgTypes THEN [kind |-> "invalid", content |-> NoBody]
     ELSE IF ty \in AppStringTypes /\ m.Content.kind # "string"
       THEN [kind |-> "panic", content |-> NoBody]
     ELSE [kind |-> "ok", content |->
       IF ty = "text" THEN [text |-> m.Content.text]
       ELSE IF ty = "image" THEN [image_key |-> m.Content.text]
       ELSE IF ty \in {"audio", "file", "media", "sticker"}
         THEN [file_key |-> m.Content.text]
       ELSE IF ty = "share_chat" THEN [chat_id |-> m.Content.text]
       ELSE IF ty = "share_user" THEN [user_id |-> m.Content.text]
       ELSE m.Content]

AppParams(m, content) ==
  [receive_id |-> m.SendTo, msg_type |-> m.MsgType, content |-> content]

\* The messages handed to sendMsg.
DispatchMessages ==
  { Message("m", ch, to, ty, "", <<>>, co) :
      ch \in {"", "ops", "app", "capp", "nochan"}, to \in {"", "u"},
      ty \in {"", "text", "interactive", "audio", "bogus"},
      co \in {StrContent(<< "build failed" >>), OtherContent} }

\* ---------------------------------------------------- dispatch, step by step
\* A goroutine's record at the start of a call.
Begin(r, op, m, app) ==
  [IdleTh EXCEPT !.op = op, !.m = m, !.app = app, !.calls = r.calls + 1]

\* The call returns with outcome out.
Finish(r, out) == [r EXCEPT !.pc = "done", !.out = out]

\* The call enters sendLarkAPIRequest(request, maxRetries).
StartRequest(r, pc, request, maxRetries) ==
  [r EXCEPT !.pc = pc, !.req = request, !.arg = maxRetries,
            !.maxRetries = NormRetries(maxRetries), !.retry = 0,
            !.attempts = 0, !.seen = <<>>, !.resets = <<>>, !.slept = <<>>,
            !.res = NoRes]

TokenRequest ==
  Request(appTokenAPI, 0, [app_id |-> "cli_app", app_secret |-> "secret"])

\* The caller of a.token() goes on with the token: Token returns it, sendMsg
\* calls sendLarkAppMessage, which builds the content and sends.
AfterToken(r, tok) ==
  IF r.op = "token" THEN Finish([r EXCEPT !.tok = tok], "ok")
  ELSE LET c == AppContent(r.m)
       IN IF c.kind = "panic" THEN Finish([r EXCEPT !.tok = tok], "panic")
          ELSE IF c.kind = "invalid"
            THEN Finish([r EXCEPT !.tok = tok], "invalid_message_type")
          ELSE StartRequest([r EXCEPT !.tok = tok], "send",
                            Request(msgAPI, tok, AppParams(r.m, c.content)),
                            callerMaxRetries)

\* getToken without the check of rs.Code: whatever parses is cached.
AfterRequestAnyCode(r) ==
  LET failed == r.res.err # "none"
  IN IF r.pc = "req" THEN Finish(r, IF failed THEN r.res.err ELSE "ok")
     ELSE IF r.pc = "send"
       THEN Finish(r, IF failed THEN "request_error"
                      ELSE IF ~r.res.body.json THEN "parse_error"
                      ELSE IF r.res.body.code # 0 THEN "platform_error"
                      ELSE "ok")
     ELSE IF failed \/ ~r.res.body.json THEN Finish(r, "token_error")
     ELSE [r EXCEPT !.pc = "tok_set", !.tok = r.res.body.token,
                    !.exp = r.res.body.expire]

\* The caller of sendLarkAPIRequest goes on with its result r.res.
AfterRequest(r) ==
  LET failed == r.res.err # "none"
      bad == failed \/ ~r.res.body.json \/ r.res.body.code # 0
  IN IF r.pc = "req" THEN Finish(r, IF failed THEN r.res.err ELSE "ok")
     ELSE IF r.pc = "send"
       THEN Finish(r, IF failed THEN "request_error"
                      ELSE IF ~r.res.body.json THEN "parse_error"
                      ELSE IF r.res.body.code # 0 THEN "platform_error"
                      ELSE "ok")
     ELSE IF bad THEN Finish(r, "token_error")
     ELSE [r EXCEPT !.pc = "tok_set", !.tok = r.res.body.token,
                    !.exp = r.res.body.expire]

\* a.token() is called for the application: the custom function or getToken.
ResolveStart(r, app) ==
  [r EXCEPT !.pc = IF TokenSource(app) = "custom" THEN "tok_fn" ELSE "tok_get"]

\* The issued tokens that have been cached, and the one cached last.
Cached == {k \in 1 .. Len(ledger) : ledger[k].order > 0}
LastCached == CHOOSE k \in Cached : \A j \in Cached : ledger[j].order <= ledger[k].order
\* The token cached last was cached with a time to live, expire - 100, that
\* has not yet elapsed.
WindowLive ==
  /\ Cached # {}
  /\ LET ttl == ledger[LastCached].expire - expireMargin
     IN ttl > 0 /\ clock <= ledger[LastCached].setAt + ttl

\* sendLarkAPIRequest(request, maxRetries) is called on its own.
RetryArgs == {0 - 1, 0, 1, 2, 3}

RequestCall(t) ==
  /\ th[t].pc \in {"idle", "done"}
  /\ th[t].calls < MaxCalls
  /\ \E maxRetries \in RetryArgs :
       th' = [th EXCEPT ![t] =
                StartRequest(Begin(th[t], "request", NoMessage, ""), "req",
                             Request("url", 0, NoBody), maxRetries)]
  /\ UNCHANGED << clock, cache, ledger, lastSet >>
  /\ UNCHANGED << vars, cvars >>

\* One turn of the loop of sendLarkAPIRequest: executeRequest is called; it
\* fails (failed) or brings a response with the given status and headers.  A
\* 429 that is retried sleeps for extractResetTime and the loop goes on
\* (resets notes the reset values that the response carried); every other
\* outcome returns to the caller, which goes on to its next blocking step.
Attempt(t, failed, status, headers) ==
  /\ th[t].pc \in {"req", "tok_req", "send"}
  /\ \E body \in IF th[t].req.url = appTokenAPI
                   THEN TokenBodies(Len(ledger) + 1) ELSE MessageBodies :
       LET r == [th[t] EXCEPT !.log = Append(@, th[t].req), !.attempts = @ + 1,
                              !.seen = Append(@, IF failed THEN transportFailed
                                                 ELSE status)]
           turn == LoopTurn(r.retry, r.maxRetries, failed, status)
           res == IF turn = "error"
                    THEN [err |-> "transport", status |-> 0, body |-> NoBody]
                  ELSE IF turn = "rate_limit"
                    THEN [err |-> "rate_limit", status |-> 0, body |-> NoBody]
                  ELSE [err |-> "none", status |-> status, body |-> body]
           issues == /\ turn = "return" /\ r.req.url = appTokenAPI
                     /\ body.json /\ body.code = 0
       IN /\ th' = [th EXCEPT ![t] =
                      IF turn = "sleep"
                        THEN [r EXCEPT !.retry = @ + 1,
                                !.resets = Append(@, HeaderValues(headers,
                                             CanonicalHeaderKey(resetHeaderKey))),
                                !.slept = Append(@, extractResetTime(
                                            HeaderValues(headers, resetHeaderKey)))]
                        ELSE AfterRequest([r EXCEPT !.res = res])]
          /\ ledger' = IF issues
                         THEN Append(ledger, [at |-> clock, expire |-> body.expire,
                                              order |-> 0, setAt |-> 0])
                         ELSE ledger
  /\ UNCHANGED << clock, cache, lastSet >>
  /\ UNCHANGED << vars, cvars >>

\* Token(appName) is called.
TokenCall(t, appName) ==
  /\ th[t].pc \in {"idle", "done"}
  /\ th[t].calls < MaxCalls
  /\ LET r == Begin(th[t], "token", NoMessage, appName)
     IN th' = [th EXCEPT ![t] =
                 IF appName \notin apps THEN Finish(r, "app_not_found")
                 ELSE ResolveStart(r, appName)]
  /\ UNCHANGED << clock, cache, ledger, lastSet >>
  /\ UNCHANGED << vars, cvars >>

\* sendMsg(m) is called by a worker of the pool, up to its first call that
\* may block: the request of the webhook branch or a.token().
DispatchCall(t) ==
  /\ th[t].pc \in {"idle", "done"}
  /\ th[t].calls < MaxCalls
  /\ \E m \in DispatchMessages :
       LET channel == ResolveChannel(m)
           kind == ChannelKind(channel)
           r == Begin(th[t], "dispatch", m, channel)
           p == BotWebhookParams(m)
       IN th' = [th EXCEPT ![t] =
            IF kind = "webhook"
              THEN IF p.panic THEN Finish(r, "panic")
                   ELSE StartRequest(r, "send",
                                     Request(WebhookURL(channel), 0, p.body),
                                     callerMaxRetries)
            ELSE IF kind = "app"
              THEN IF AppPrecheck(m) = "missing_recipient"
                     THEN Finish(r, "missing_recipient")
                     ELSE ResolveStart(r, channel)
            ELSE Finish(r, "channel_not_found")]
  /\ UNCHANGED << clock, cache, ledger, lastSet >>
  /\ UNCHANGED << vars, cvars >>

\* The custom Token function of the application runs and returns.
TokenFn(t) ==
  /\ th[t].pc = "tok_fn"
  /\ \E ok \in BOOLEAN :
       LET r == [th[t] EXCEPT !.fn = @ + 1]
       IN th' = [th EXCEPT ![t] =
                   IF ok THEN AfterToken(r, CustomToken)
                   ELSE Finish(r, "token_error")]
  /\ UNCHANGED << clock, cache, ledger, lastSet >>
  /\ UNCHANGED << vars, cvars >>

\* getToken: n.cache.GetString(cacheKey) loads the entry and compares its
\* expiration with the clock.  A non-empty value is returned; an expired
\* entry is still to be deleted; otherwise the token is requested.
TokGet(t) ==
  /\ th[t].pc = "tok_get"
  /\ LET look == Lookup(cache, tokenCacheKey, clock)
         r == [th[t] EXCEPT !.cacheOps = @ + 1, !.live = WindowLive]
     IN th' = [th EXCEPT ![t] =
                 IF look = "expired" THEN [r EXCEPT !.pc = "tok_del"]
                 ELSE IF look = "value" /\ cache[tokenCacheKey].value # 0
                   THEN AfterToken([r EXCEPT !.hit = TRUE, !.at = clock],
                                   cache[tokenCacheKey].value)
                 ELSE StartRequest(r, "tok_req", TokenRequest, callerMaxRetries)]
  /\ UNCHANGED << clock, cache, ledger, lastSet >>
  /\ UNCHANGED << vars, cvars >>

\* GetString deletes the key it found expired and returns ErrKeyExpired;
\* getToken goes on to request a token.
TokDelete(t) ==
  /\ th[t].pc = "tok_del"
  /\ cache' = Delete(cache, tokenCacheKey)
  /\ th' = [th EXCEPT ![t] =
              StartRequest(th[t], "tok_req", TokenRequest, callerMaxRetries)]
  /\ lastSet' = [lastSet EXCEPT !.expired = TRUE]
  /\ UNCHANGED << clock, ledger >>
  /\ UNCHANGED << vars, cvars >>

\* getToken keeping the entry another caller has stored meanwhile.
TokSetIfAbsent(t) ==
  /\ th[t].pc = "tok_set"
  /\ cache' = IF cache[tokenCacheKey].present THEN cache
              ELSE SetString(cache, tokenCacheKey, th[t].tok,
                             th[t].exp - expireMargin, clock)
  /\ ledger' = [ledger EXCEPT ![th[t].tok] =
                  [@ EXCEPT !.order = Cardinality(Cached) + 1, !.setAt = clock]]
  /\ th' = [th EXCEPT ![t] =
              AfterToken([th[t] EXCEPT !.cacheOps = @ + 1], th[t].tok)]
  /\ lastSet' = [n |-> lastSet.n + 1, value |-> th[t].tok,
                 expiration |-> th[t].exp - expireMargin, at |-> clock,
                 expired |-> FALSE]
  /\ UNCHANGED clock
  /\ UNCHANGED << vars, cvars >>

\* getToken caches the token it was issued for rs.Expire-100 seconds and
\* returns it.
TokSet(t) ==
  /\ th[t].pc = "tok_set"
  /\ cache' = SetString(cache, tokenCacheKey, th[t].tok,
                        th[t].exp - expireMargin, clock)
  /\ ledger' = [ledger EXCEPT ![th[t].tok] =
                  [@ EXCEPT !.order = Cardinality(Cached) + 1, !.setAt = clock]]
  /\ th' = [th EXCEPT ![t] =
              AfterToken([th[t] EXCEPT !.cacheOps = @ + 1], th[t].tok)]
  /\ lastSet' = [n |-> lastSet.n + 1, value |-> th[t].tok,
                 expiration |-> th[t].exp - expireMargin, at |-> clock,
                 expired |-> FALSE]
  /\ UNCHANGED clock
  /\ UNCHANGED << vars, cvars >>

\* Time passes.
Tick ==
  /\ clock + TickSeconds <= MaxTicks * TickSeconds
  /\ clock' = clock + TickSeconds
  /\ UNCHANGED << cache, th, ledger, lastSet >>
  /\ UNCHANGED << vars, cvars >>

\* ------------------------------------------------- the cache, step by step
\* The expirations passed to SetString.
Expirations == {0, TickSeconds}

\* By the expiration it was stored with, the value of the last SetString is
\* still to be returned.
LastSetLive ==
  /\ lastSet.n > 0
  /\ lastSet.expiration <= 0 \/ clock <= lastSet.at + lastSet.expiration

\* SetString(key, value, expiration) is called by some goroutine, with a
\* value that was not stored before: one Store.
CacheSet(expiration) ==
  /\ lastSet.n < MaxCalls
  /\ cache' = SetString(cache, tokenCacheKey, lastSet.n + 1, expiration, clock)
  /\ lastSet' = [n |-> lastSet.n + 1, value |-> lastSet.n + 1,
                 expiration |-> expiration, at |-> clock, expired |-> FALSE]
  /\ UNCHANGED << clock, th, ledger >>
  /\ UNCHANGED << vars, cvars >>

\* GetString(key) is called: the Load and the comparison of the expiration
\* with the clock.  An absent key and a valid entry return at once; an expired
\* entry is still to be deleted.  want, live and never note what the last
\* SetString stored.
CacheGet(t) ==
  /\ th[t].pc \in {"idle", "done"}
  /\ th[t].calls < MaxCalls
  /\ LET look == Lookup(cache, tokenCacheKey, clock)
         r == [Begin(th[t], "get", NoMessage, "") EXCEPT
                 !.want = lastSet.value, !.live = LastSetLive,
                 !.never = lastSet.n > 0 /\ lastSet.expiration = 0]
     IN th' = [th EXCEPT ![t] =
                 IF look = "expired" THEN [r EXCEPT !.pc = "get_del"]
                 ELSE IF look = "value"
                   THEN Finish([r EXCEPT !.tok = cache[tokenCacheKey].value], "value")
                 ELSE Finish(r, "not_found")]
  /\ UNCHANGED << clock, cache, ledger, lastSet >>
  /\ UNCHANGED << vars, cvars >>

\* GetString deletes the key it found expired and returns ErrKeyExpired.
CacheGetDelete(t) ==
  /\ th[t].pc = "get_del"
  /\ cache' = Delete(cache, tokenCacheKey)
  /\ th' = [th EXCEPT ![t] = Finish(th[t], "expired")]
  /\ lastSet' = [lastSet EXCEPT !.expired = TRUE]
  /\ UNCHANGED << clock, ledger >>
  /\ UNCHANGED << vars, cvars >>

\* ------------------------------------------------------ configuration, New
\* The names a Config may use as keys of BotWebhooks and of Larks.
TargetNames == {"ops", "app"}

\* Lark{AppType, Token, AppID, AppSecret}; Token is whether a function is set.
LarkConfigs ==
  [AppType : {"feishu", "lark", "other"}, Token : BOOLEAN, AppID : {"", "cli_app"},
   AppSecret : {"", "secret"}]

\* Config.  BotWebhooks is the set of its keys (no URL is ever validated) and
\* Larks a function from its keys; DefaultSendChannelName is unset, a key, or
\* a name that is no key; the sizes are unset, positive or negative.
Configs ==
  [DefaultSendChannelName : {""} \cup TargetNames \cup {"nochan"},
   ChannelSize : {0, 1},
   PoolSize : {0 - 1, 0, 1},
   BotWebhooks : SUBSET TargetNames,
   Larks : UNION {[S -> LarkConfigs] : S \in SUBSET TargetNames}]

\* runtime.GOMAXPROCS(0) on the machine that runs New.
Procs == {1, 2}

\* The switch of validateConfig on one Lark: each case falls through to the
\* return of the error.
LarkConfigError(l) ==
  \/ ~l.Token /\ l.AppID = "" /\ l.AppSecret = ""
  \/ l.AppID # "" /\ l.AppSecret = ""
  \/ l.AppID = "" /\ l.AppSecret # ""

\* The default of a size that was left at 0.
DefaultSize(size, procs) == IF size = 0 THEN defaultSizeFactor * procs ELSE size

\* validateConfig without the check of DefaultSendChannelName.
validateConfigAnyDefault(c, procs) ==
  LET webhookCount == Cardinality(c.BotWebhooks)
      larkCount == Cardinality(DOMAIN c.Larks)
  IN IF webhookCount = 0 /\ larkCount = 0
       THEN [err |-> "no_channels", config |-> c]
     ELSE IF /\ webhookCount = 0
             /\ larkCount # 0
             /\ \E name \in DOMAIN c.Larks : LarkConfigError(c.Larks[name])
       THEN [err |-> "lark_config", config |-> c]
     ELSE [err |-> "",
           config |-> [c EXCEPT !.ChannelSize = DefaultSize(@, procs),
                                !.PoolSize = DefaultSize(@, procs)]]

\* validateConfig: the error, and the Config with its sizes defaulted.
validateConfig(c, procs) ==
  LET webhookCount == Cardinality(c.BotWebhooks)
      larkCount == Cardinality(DOMAIN c.Larks)
  IN IF webhookCount = 0 /\ larkCount = 0
       THEN [err |-> "no_channels", config |-> c]
     ELSE IF c.DefaultSendChannelName = ""
       THEN [err |-> "default_required", config |-> c]
     ELSE IF /\ webhookCount = 0
             /\ larkCount # 0
             /\ \E name \in DOMAIN c.Larks : LarkConfigError(c.Larks[name])
       THEN [err |-> "lark_config", config |-> c]
     ELSE [err |-> "",
           config |-> [c EXCEPT !.ChannelSize = DefaultSize(@, procs),
                                !.PoolSize = DefaultSize(@, procs)]]

\* ants.NewPoolWithFunc(size, f, WithPreAlloc(true)) returns a pool for a
\* positive size and an error otherwise.
NewPoolWithFunc(size) == size > 0

\* One turn of the loop of New over config.Larks: the error it returns for
\* this Lark, "" when the app is built.
AppError(l) ==
  IF l.AppType \notin {"feishu", "lark"} THEN "invalid_app_type"
  ELSE IF ~l.Token /\ (l.AppID = "" \/ l.AppSecret = "") THEN "lark_config"
  ELSE ""

\* The app New builds for a Lark: a.token and a.msgAPI.
App(l) ==
  [token |-> IF l.Token THEN "custom" ELSE "getToken", msgAPI |-> l.AppType]

\* The notify New returns for a validated Config.
Notify(c) ==
  [botWebhooks |-> c.BotWebhooks,
   apps |-> [name \in DOMAIN c.Larks |-> App(c.Larks[name])],
   defaultSendChannelName |-> c.DefaultSendChannelName,
   ChannelSize |-> c.ChannelSize,
   PoolSize |-> c.PoolSize]

Failed(err) == [called |-> TRUE, err |-> err, n |-> NoNotify]

\* The errors New(config) may return, "" when it returns a notify.  The loop
\* ranges over a map: when several Larks are in error, the one it meets
\* first, any of them, decides the error returned.
NewErrors(c, procs) ==
  LET v == validateConfig(c, procs)
      bad == {name \in DOMAIN c.Larks : AppError(c.Larks[name]) # ""}
  IN IF v.err # "" THEN {v.err}
     ELSE IF ~NewPoolWithFunc(v.config.PoolSize) THEN {"pool"}
     ELSE IF bad # {} THEN {AppError(c.Larks[name]) : name \in bad}
     ELSE {""}

\* New(config) is called.
NewCall ==
  /\ ~built.called
  /\ \E c \in Configs, procs \in Procs :
       \E err \in NewErrors(c, procs) :
         /\ config' = c
         /\ built' = IF err # "" THEN Failed(err)
                     ELSE [called |-> TRUE, err |-> "",
                           n |-> Notify(validateConfig(c, procs).config)]
  /\ UNCHANGED << clock, cache, th, ledger, lastSet, routed, mgr >>
  /\ UNCHANGED vars

\* The two map lookups of sendMsg on a built notify.
KindOf(n, channel) ==
  IF channel \in n.botWebhooks THEN "webhook"
  ELSE IF channel \in DOMAIN n.apps THEN "app"
  ELSE "none"

\* sendMsg of the built notify, up to the lookup of the channel, for a
\* message with the given SendChannelName.
RouteMsg(name) ==
  /\ built.called
  /\ built.err = ""
  /\ LET channel == IF name = "" THEN built.n.defaultSendChannelName ELSE name
     IN routed' = [sent |-> TRUE, name |-> name, channel |-> channel,
                   kind |-> KindOf(built.n, channel)]
  /\ UNCHANGED << clock, cache, th, ledger, lastSet, config, built, mgr >>
  /\ UNCHANGED vars

\* ----------------------------------------------------------------- Manager
LarkChan == "lark"
DingTalkChan == "ding_talk"
InvalidParams == "invalid params"

\* The channels a caller may list: none, the two dispatchers of this model in
\* either order, and a Channel value that no case of submit names.
ChannelLists ==
  { <<>>, <<LarkChan>>, <<DingTalkChan>>, <<LarkChan, DingTalkChan>>,
    <<DingTalkChan, LarkChan>>, <<"pager">> }
\* The titles and contents a caller may pass: empty, plain, a lone quote.
ManagerTexts == { <<>>, <<"a">>, <<"\"">> }
\* The levels a caller may pass: none, the four of the package, another.
ManagerLevels == {"", "info", "success", "error", "warn", "debug"}

\* lark.Message{ID, SendTo, MsgLevel, Title, Content} and
\* ding.Message{ID, Title, Content} as submit fills them.
LarkMessage(msgID, sendTo, level, title, content) ==
  Message(msgID, "", sendTo, "", level, title, StrContent(content))
DingMessage(msgID, title, content) ==
  [ID |-> msgID, Title |-> title, Content |-> content]

\* One turn of the loop of submit over channels: Lark's SubmitMessage
\* returns an error, which is logged, or queues the message; DingTalk's
\* queues it; any other channel of this model does nothing.
SubmitToChannel(channel, lm, dm, st) ==
  IF channel = LarkChan
    THEN LET r == PrepareMessage(lm, lm.ID)
         IN IF r.err THEN [st EXCEPT !.chanErrs = @ + 1]
            ELSE [st EXCEPT !.lark = Append(@, r.msg)]
  ELSE IF channel = DingTalkChan
    THEN [st EXCEPT !.ding = Append(@, dm)]
  ELSE st

RECURSIVE SubmitEach(_, _, _, _)
SubmitEach(channels, lm, dm, st) ==
  IF channels = <<>> THEN st
  ELSE SubmitEach(Tail(channels), lm, dm,
                  SubmitToChannel(Head(channels), lm, dm, st))

\* Manager.submit without the validation of title and content.
submitUnchecked(m, level, sendTo, title, content, channels) ==
  LET chans == IF Len(channels) = 0 THEN << m.defaultChannel >> ELSE channels
      lv == IF level = "" THEN m.defaultLevel ELSE level
      newIndex == m.index + 1
      msgID == NewID(newIndex)
      st == SubmitEach(chans,
                       LarkMessage(msgID, sendTo, lv, title, content),
                       DingMessage(msgID, title, content),
                       [lark |-> m.lark, ding |-> m.ding, chanErrs |-> 0])
  IN [m EXCEPT !.index = newIndex, !.lark = st.lark, !.ding = st.ding,
               !.res = [done |-> TRUE, msgID |-> msgID, err |-> "",
                        chanErrs |-> st.chanErrs]]

\* Manager.submit on the Manager m: what it returns (msgID, err), the
\* Manager's sequence number and the queues of the dispatchers after it.
submit(m, level, sendTo, title, content, channels) ==
  IF title = <<>> /\ content = <<>>
    THEN [m EXCEPT !.res = [done |-> TRUE, msgID |-> "", err |-> InvalidParams,
                            chanErrs |-> 0]]
  ELSE LET chans == IF Len(channels) = 0 THEN << m.defaultChannel >> ELSE channels
           lv == IF level = "" THEN m.defaultLevel ELSE level
           newIndex == m.index + 1
           msgID == NewID(newIndex)
           st == SubmitEach(chans,
                            LarkMessage(msgID, sendTo, lv, title, content),
                            DingMessage(msgID, title, content),
                            [lark |-> m.lark, ding |-> m.ding, chanErrs |-> 0])
       IN [m EXCEPT !.index = newIndex, !.lark = st.lark, !.ding = st.ding,
                    !.res = [done |-> TRUE, msgID |-> msgID, err |-> "",
                             chanErrs |-> st.chanErrs]]

\* New of the manager package with Lark and DingTalk enabled, a default
\* channel and a default level.
ManagerNew(defaultChannel, defaultLevel) ==
  /\ ~mgr.made
  /\ mgr' = [NoManager EXCEPT !.made = TRUE, !.defaultChannel = defaultChannel,
                              !.defaultLevel = defaultLevel]
  /\ UNCHANGED << clock, cache, th, ledger, lastSet, config, built, routed >>
  /\ UNCHANGED vars

\* Send, Info, Success, Error and Warn: submit with the level they pass.
\* The call returns once each queue has taken its message.
ManagerSend(level, sendTo, title, content, channels) ==
  /\ mgr.made
  /\ mgr.sends < MaxSends
  /\ LET m == submit(mgr, level, sendTo, title, content, channels)
     IN /\ Len(m.lark) <= ChannelSize
        /\ Len(m.ding) <= ChannelSize
        /\ mgr' = [m EXCEPT !.sends = @ + 1]
  /\ UNCHANGED << clock, cache, th, ledger, lastSet, config, built, routed >>
  /\ UNCHANGED vars

\* The processors started by New take the oldest message of a queue.
ManagerProcess ==
  /\ mgr.made
  /\ \/ mgr.lark # <<>> /\ mgr' = [mgr EXCEPT !.lark = Tail(@)]
     \/ mgr.ding # <<>> /\ mgr' = [mgr EXCEPT !.ding = Tail(@)]
  /\ UNCHANGED << clock, cache, th, ledger, lastSet, config, built, routed >>
  /\ UNCHANGED vars

\* -------------------------------------------------- msgid.ID, step by step
\* The other variables of the model, which the steps of msgid.ID leave alone.
IDFrame ==
  /\ UNCHANGED << clock, cache, ledger, lastSet, config, built, routed >>
  /\ UNCHANGED vars

\* NewMessageID, or New after the wrap, has called updatePrefix: it locks
\* m.mu, sets the prefix and the index, and unlocks on return.  The mutex is
\* not reentrant: the call waits while any goroutine holds it.
UpdatePrefix(t) ==
  /\ th[t].pc \in {"id_make", "id_update"}
  /\ mgr.id.mu = 0
  /\ mgr' = [mgr EXCEPT !.id = [made |-> TRUE, index |-> scaledInitIndex,
                                prefix |-> mgr.id.prefix + 1, mu |-> 0]]
  /\ th' = [th EXCEPT ![t] =
              IF th[t].pc = "id_make" THEN Finish(th[t], "made")
              ELSE [th[t] EXCEPT !.pc = "id_fmt"]]
  /\ IDFrame

\* NewMessageID() is called: the ID with index initIndex, then updatePrefix.
NewMessageID(t) ==
  /\ ~mgr.id.made
  /\ \A u \in Threads : th[u].pc = "idle"
  /\ th' = [th EXCEPT ![t] = [IdleTh EXCEPT !.op = "make", !.pc = "id_make"]]
  /\ mgr' = [mgr EXCEPT !.id.index = scaledInitIndex]
  /\ IDFrame

\* ID.New is called: atomic.AddUint64(&m.index, 1), which wraps.
IDNew(t) ==
  /\ mgr.id.made
  /\ th[t].pc \in {"idle", "done"}
  /\ th[t].calls < MaxCalls
  /\ LET newIndex == (mgr.id.index + 1) % indexModulus
         r == [Begin(th[t], "new", NoMessage, "") EXCEPT !.tok = newIndex]
     IN /\ mgr' = [mgr EXCEPT !.id.index = newIndex]
        /\ th' = [th EXCEPT ![t] =
                    [r EXCEPT !.pc = IF newIndex = 0 THEN "id_lock" ELSE "id_fmt"]]
  /\ IDFrame

\* newIndex == 0: m.mu.Lock(), with the unlock deferred to the return.
IDLock(t) ==
  /\ th[t].pc = "id_lock"
  /\ mgr.id.mu = 0
  /\ mgr' = [mgr EXCEPT !.id.mu = t]
  /\ th' = [th EXCEPT ![t].pc = "id_check"]
  /\ IDFrame

\* if atomic.LoadUint64(&m.index) == 0 { m.updatePrefix() }
IDCheck(t) ==
  /\ th[t].pc = "id_check"
  /\ th' = [th EXCEPT ![t].pc = IF mgr.id.index = 0 THEN "id_update" ELSE "id_fmt"]
  /\ UNCHANGED mgr
  /\ IDFrame

\* The number is formatted in base 36 and m.prefix is read for the splice.
IDFormat(t) ==
  /\ th[t].pc = "id_fmt"
  /\ th' = [th EXCEPT ![t] = [th[t] EXCEPT !.pc = "id_ret",
                                           !.exp = mgr.id.prefix]]
  /\ UNCHANGED mgr
  /\ IDFrame

\* New returns the identifier; the deferred unlock runs.
IDReturn(t) ==
  /\ th[t].pc = "id_ret"
  /\ th' = [th EXCEPT ![t] = Finish(th[t], FormatUint(th[t].tok))]
  /\ mgr' = [mgr EXCEPT !.id.mu = IF @ = t THEN 0 ELSE @]
  /\ IDFrame

\* ----------------------------------------------------------- specifications
Next ==
  \/ \E i \in Subs : SubmitCall(i)
  \/ \E i \in Subs : SubmitSend(i)
  \/ StartProcessor
  \/ ConsumerRecv
  \/ ConsumerAddStep
  \/ ConsumerInvokeStep
  \/ WorkerStep
  \/ CloseCall
  \/ CloseWait
  \/ CloseRelease

Spec == Init /\ [][Next]_vars

\* The goroutines are scheduled and the workers' network calls return.
Fairness ==
  /\ WF_vars(ConsumerRecv)
  /\ WF_vars(ConsumerAddStep)
  /\ WF_vars(ConsumerInvokeStep)
  /\ WF_vars(WorkerStep)
  /\ WF_vars(CloseWait)
  /\ WF_vars(CloseRelease)

LiveSpec == Init /\ [][Next]_vars /\ Fairness

\* SubmitMessage alone: the callers submit PlainMessage or one message of
\* AllMessages.
SubmitInit == \E m \in AllMessages : InitWith({m, PlainMessage})

SubmitNext ==
  \/ \E i \in Subs : SubmitCall(i)
  \/ \E i \in Subs : SubmitSend(i)

SubmitSpec == SubmitInit /\ [][SubmitNext]_vars

allvars == << vars, xvars >>

\* The dispatcher at rest, with nothing submitted.
XInit == InitWith({})

\* sendLarkAPIRequest called on its own against any server.
ReqNext ==
  \/ RequestCall(1)
  \/ \E failed \in BOOLEAN, status \in Statuses, headers \in ResponseHeaders :
       Attempt(1, failed, status, headers)

ReqSpec == XInit /\ [][ReqNext]_allvars

\* One goroutine dispatching messages with sendMsg and calling Token, one
\* call after the other; the 429 answers carry no reset header.
DispatchNext ==
  \/ DispatchCall(1)
  \/ \E appName \in apps \cup {"nochan"} : TokenCall(1, appName)
  \/ TokenFn(1)
  \/ TokGet(1)
  \/ TokSet(1)
  \/ \E failed \in BOOLEAN, status \in Statuses :
       Attempt(1, failed, status, NoHeaders)

DispatchSpec == XInit /\ [][DispatchNext]_allvars

\* Goroutines resolving the token of the built-in application at the same
\* time while time passes; the token endpoint is not rate limiting.
TokenNext ==
  \/ \E t \in Threads : TokenCall(t, "app")
  \/ \E t \in Threads : TokGet(t)
  \/ \E t \in Threads : TokDelete(t)
  \/ \E t \in Threads : TokSet(t)
  \/ \E t \in Threads, failed \in BOOLEAN : Attempt(t, failed, 200, NoHeaders)
  \/ Tick

TokenSpec == XInit /\ [][TokenNext]_allvars

\* Goroutines resolving the token of the built-in application at the same
\* time on a cache that starts empty; no time passes and every request is
\* answered.
MissNext ==
  \/ \E t \in Threads : TokenCall(t, "app")
  \/ \E t \in Threads : TokGet(t)
  \/ \E t \in Threads : TokSet(t)
  \/ \E t \in Threads : Attempt(t, FALSE, 200, NoHeaders)

MissSpec == XInit /\ [][MissNext]_allvars

\* An ID is made and goroutines call New on it at the same time.
IDNext ==
  \/ NewMessageID(1)
  \/ \E t \in Threads : UpdatePrefix(t)
  \/ \E t \in Threads : IDNew(t)
  \/ \E t \in Threads : IDLock(t)
  \/ \E t \in Threads : IDCheck(t)
  \/ \E t \in Threads : IDFormat(t)
  \/ \E t \in Threads : IDReturn(t)

IDSpec == XInit /\ [][IDNext]_allvars

\* Goroutines calling GetString and SetString on one key of the cache at the
\* same time while time passes.
CacheNext ==
  \/ \E expiration \in Expirations : CacheSet(expiration)
  \/ \E t \in Threads : CacheGet(t)
  \/ \E t \in Threads : CacheGetDelete(t)
  \/ Tick

CacheSpec == XInit /\ [][CacheNext]_allvars

\* New called once on any Config, then messages routed by the built notify.
ConfigNext ==
  \/ NewCall
  \/ \E name \in {""} \cup TargetNames : RouteMsg(name)

ConfigSpec == XInit /\ [][ConfigNext]_allvars

\* A Manager is made and messages are sent through it.
ManagerNext ==
  \/ \E defaultChannel \in {"", LarkChan, DingTalkChan},
        defaultLevel \in {"", "info"} :
       ManagerNew(defaultChannel, defaultLevel)
  \/ \E level \in ManagerLevels, sendTo \in {"", "u"}, title \in ManagerTexts,
        content \in ManagerTexts, channels \in ChannelLists :
       ManagerSend(level, sendTo, title, content, channels)
  \/ ManagerProcess

ManagerSpec == XInit /\ [][ManagerNext]_allvars

\* ------------------------------------------------------------------ claims
\* Where the message of call i currently is.
InQueue(i) == \E k \in 1 .. Len(messages) : messages[k].seq = i
Held(i) == \E it \in cons.add \cup cons.invoke : it.seq = i
InFlight(i) == \E e \in inflight : e.seq = i

Occurrences(i) ==
  Cardinality({k \in 1 .. Len(messages) : messages[k].seq = i})
    + Cardinality({it \in cons.add : it.seq = i})
    + Cardinality({it \in cons.invoke : it.seq = i})
    + Cardinality({e \in inflight : e.seq = i})

Started == NumStarted > 0
Running == Started /\ closePc = "idle"

\* C1: if StartProcessor had been called, then once Close has returned every
\* message that was enqueued has been through sendMsg: none is still in the
\* queue, held by the consumer, in flight or rejected by the pool.
C1_CloseDrains ==
  (closePc = "done" /\ startedAtClose) =>
    \A i \in Subs :
      sub[i].pc = "done" => hist[i].outcome \in {"ok", "error", "panic"}

\* C2: a Close that waits on the counter eventually returns.
C2_CloseReturns == (closePc = "wait") ~> (closePc = "done")

C4_EventuallyDispatched ==
  \A i \in Subs :
    (sub[i].pc = "done" /\ Running) ~> (hist[i].invoked > 0 \/ ~Running)

C4_Witness ==
  /\ closePc = "idle"
  /\ \A i \in Subs : sub[i].pc = "done" /\ hist[i].invoked = 1

\* C5: once the channel is closed nothing is enqueued any more: the queue
\* only loses messages, a call that is at its send does not complete, and the
\* message of a call that panicked is neither queued nor dispatched.
C5_NoSubmitAfterClose ==
  /\ [](\A i \in Subs :
          sub[i].pc = "panic" => Occurrences(i) = 0 /\ hist[i] = NoHist)
  /\ [][closed =>
          /\ messages' = messages \/ (messages # <<>> /\ messages' = Tail(messages))
          /\ \A i \in Subs : sub[i].pc = "send" => sub'[i].pc \in {"send", "panic"}]_vars

C5_Witness ==
  /\ closed
  /\ Len(messages) = ChannelSize
  /\ \E i \in Subs : sub[i].pc = "panic"

C7_PoolBound == Cardinality(inflight) <= PoolSize

C7_Witness ==
  /\ Cardinality(inflight) = PoolSize
  /\ ~poolClosed
  /\ cons.invoke # {}

\* C8: when sendMsg returns an error for a message, the caller had already
\* got a nil error, the counter went down exactly once for that message and
\* nothing else changed; and a message waiting in the queue at that time is
\* still dispatched while the dispatcher is Running.
C8_ErrorIsLocal ==
  /\ [](\A i \in Subs :
          hist[i].outcome = "error" =>
            hist[i].done = 1 /\ sub[i].pc = "done" /\ ~sub[i].err)
  /\ [][\A i \in Subs :
          (hist[i].outcome # "error" /\ hist'[i].outcome = "error") =>
            /\ wg' = wg - 1
            /\ inflight' = {e \in inflight : e.seq # i}
            /\ UNCHANGED << sub, messages, closed, cons, poolClosed, closePc >>
            /\ \A j \in Subs \ {i} : hist'[j] = hist[j]]_vars
  /\ \A j \in Subs :
       ((\E i \in Subs : hist[i].outcome = "error") /\ InQueue(j) /\ Running)
         ~> (hist[j].invoked > 0 \/ ~Running)

C8_Witness ==
  \E i, j \in Subs :
    /\ hist[i].outcome = "error" /\ hist[i].done = 1
    /\ i < j /\ hist[j].outcome = "ok"
    /\ wg = 0

\* The calls that have got past the ID and card steps of SubmitMessage.
Called == {i \in Subs : sub[i].pc # "idle"}
\* The calls that have returned.
Returned == {i \in Subs : sub[i].pc \in {"done", "error"}}

\* C9: the returned ID is the caller's ID when there is one and otherwise a
\* non-empty ID that no other call was given, and the message on the queue
\* carries the returned ID.
C9_ReturnedID ==
  /\ \A i \in Returned :
       IF sub[i].in.ID # "" THEN sub[i].id = sub[i].in.ID
       ELSE /\ sub[i].id # "" /\ Len(sub[i].id) > Len(prefix)
            /\ \A j \in Called \ {i} : sub[j].in.ID = "" => sub[j].id # sub[i].id
  /\ \A k \in 1 .. Len(messages) :
       /\ sub[messages[k].seq].pc = "done"
       /\ messages[k].m.ID = sub[messages[k].seq].id

C9_Witness ==
  /\ Len(messages) = 1
  /\ sub[1].pc = "done" /\ sub[1].in.ID = ""
  /\ sub[2].pc = "send" /\ sub[2].id # sub[1].id
  /\ messages[1].m.ID = sub[1].id

\* The three conditions of the card rewrite.
Qualifies(m) ==
  (m.MsgType = "" \/ m.MsgType = "text") /\ m.MsgLevel # "" /\ m.Title # <<>>

Rewritten(i) ==
  /\ sub[i].msg.MsgType = "interactive"
  /\ sub[i].msg.Content.kind = "card"

Untouched(i) ==
  /\ sub[i].msg.MsgType = sub[i].in.MsgType
  /\ sub[i].msg.Content = sub[i].in.Content

\* What the queue holds is what the calls sent.
QueueHoldsSent ==
  \A i \in Subs :
    sub[i].pc = "done" => \E k \in 1 .. Len(messages) : messages[k] = Item(i, sub[i].msg)

\* C10 as stated: a message that meets the three conditions is enqueued as
\* an interactive card, any other message is enqueued unchanged.
C10_Original ==
  /\ QueueHoldsSent
  /\ \A i \in Called :
       IF Qualifies(sub[i].in)
         THEN sub[i].pc # "error" /\ Rewritten(i)
         ELSE sub[i].pc # "error" /\ Untouched(i)

\* C10 amended: a message that meets the three conditions and whose Content
\* is a string is rendered; when rendering succeeds it is enqueued as an
\* interactive card carrying the decoded title and content and the colour of
\* its level, and when rendering fails the call returns an error and enqueues
\* nothing.  A message that fails one of the three conditions, or whose
\* Content is not a string, is enqueued with MsgType and Content unchanged.
C10_Amended ==
  /\ QueueHoldsSent
  /\ \A k \in 1 .. Len(messages) : sub[messages[k].seq].pc = "done"
  /\ \A i \in Called :
       IF Qualifies(sub[i].in) /\ sub[i].in.Content.kind = "string"
         THEN LET c == JsonUnquote(sub[i].in.Content.text)
                  t == JsonUnquote(sub[i].in.Title)
              IN IF c.ok /\ t.ok
                   THEN /\ sub[i].pc # "error"
                        /\ Rewritten(i)
                        /\ sub[i].msg.Content.text = c.val
                        /\ sub[i].msg.Content.title = t.val
                        /\ sub[i].msg.Content.color = LevelColor(sub[i].in.MsgLevel)
                   ELSE sub[i].pc = "error" /\ sub[i].err
         ELSE sub[i].pc # "error" /\ Untouched(i)

C10_Witness ==
  /\ Len(messages) = 1
  /\ sub[1].pc = "done" /\ Qualifies(sub[1].in) /\ Rewritten(1)
  /\ messages[1].m.MsgType = "interactive"
  /\ sub[1].in.MsgType = "text"
  /\ sub[1].in.Content.text = << "\\", "n" >>
  /\ messages[1].m.Content.text = << "\n" >>

\* The card of the message cannot be rendered.
RenderFails(m) ==
  /\ shouldGenerateCardMsg(m) /\ m.Content.kind = "string"
  /\ generateTextCardMsgWithLevel(m.MsgLevel, m.Title, m.Content.text).err

\* C11: when the card rendering fails inside SubmitMessage, the call returns
\* an error and the message is never on the queue; the step that fails leaves
\* the queue and the WaitGroup counter as they were, and the call stays
\* returned.
C11_RenderFailure ==
  /\ [](\A i \in Called :
         RenderFails(sub[i].in) =>
           sub[i].pc = "error" /\ sub[i].err /\ ~InQueue(i))
  /\ [][\A i \in Subs :
         /\ (sub[i].pc = "idle" /\ sub'[i].pc = "error") =>
              (messages' = messages /\ wg' = wg /\ closed' = closed)
         /\ sub[i].pc = "error" => sub'[i] = sub[i]]_vars

C11_Witness ==
  /\ Len(messages) = 1 /\ sub[1].pc = "done"
  /\ sub[2].pc = "error" /\ sub[2].err /\ RenderFails(sub[2].in)
  /\ messages[1].seq = 1

\* ------------------------------------------------------- claims on dispatch
\* The goroutines that have called sendMsg, and the kind of target of a message.
Dispatching == {t \in Threads : th[t].op = "dispatch"}
ToApp(m) == ResolveChannel(m) \in apps /\ ResolveChannel(m) \notin botWebhooks
ToNone(m) == ResolveChannel(m) \notin apps /\ ResolveChannel(m) \notin botWebhooks
\* The requests a call has made to an endpoint.
RequestsTo(t, url) == {k \in 1 .. Len(th[t].log) : th[t].log[k].url = url}

\* C12: a dispatch to an application target with an empty SendTo has failed
\* with the missing-recipient error without having called the token function,
\* read the token cache, or sent a request to any endpoint.
C12_MissingRecipient ==
  \A t \in Dispatching :
    (ToApp(th[t].m) /\ th[t].m.SendTo = "") =>
      /\ th[t].pc = "done" /\ th[t].out = "missing_recipient"
      /\ th[t].log = <<>> /\ th[t].fn = 0 /\ th[t].cacheOps = 0

C12_Witness ==
  /\ th[1].op = "dispatch" /\ th[1].out = "missing_recipient"
  /\ th[1].m.SendChannelName = "capp" /\ th[1].m.MsgType = "bogus"
  /\ th[1].calls = 2

\* C13: a dispatch whose channel name is neither a webhook target nor an
\* application target has failed with the channel-not-found error and has
\* sent no request.
C13_ChannelNotFound ==
  \A t \in Dispatching :
    ToNone(th[t].m) =>
      /\ th[t].pc = "done" /\ th[t].out = "channel_not_found"
      /\ th[t].log = <<>> /\ th[t].fn = 0 /\ th[t].cacheOps = 0

C13_Witness ==
  /\ th[1].op = "dispatch" /\ th[1].out = "channel_not_found"
  /\ th[1].m.SendChannelName = "nochan" /\ th[1].m.MsgType = "text"
  /\ th[1].m.SendTo = "u"

\* The text "build failed" with no channel, and the POST it is to produce.
BuildFailed == Message("m", "", "", "text", "", <<>>, StrContent(<< "build failed" >>))
BuildFailedPost ==
  Request(WebhookURL("ops"), 0,
          [msg_type |-> "text", content |-> [text |-> << "build failed" >>]])

\* Every request of a dispatch goes to the channel named by the message, or
\* to the default channel when the message names none.
RoutedByName ==
  \A t \in Dispatching :
    LET name == th[t].m.SendChannelName
        ch == IF name = "" THEN defaultSendChannelName ELSE name
    IN /\ \A k \in 1 .. Len(th[t].log) :
            IF ch \in botWebhooks THEN th[t].log[k].url = WebhookURL(ch)
            ELSE th[t].app = ch /\ th[t].log[k].url \in {appTokenAPI, msgAPI}
       /\ th[t].out = "ok" => th[t].log # <<>>

\* C14 as stated: requests go to the default channel or to the named one, and
\* the dispatch of BuildFailed ends with exactly one POST, BuildFailedPost.
C14_Original ==
  /\ RoutedByName
  /\ \A t \in Dispatching :
       (th[t].m = BuildFailed /\ th[t].pc = "done") =>
         th[t].log = << BuildFailedPost >>

\* C14 amended: requests go to the default channel or to the named one, and
\* the dispatch of BuildFailed POSTs BuildFailedPost and nothing else: once,
\* and once more after each 429 answer, at most callerMaxRetries + 1 times.
C14_Amended ==
  /\ RoutedByName
  /\ \A t \in Dispatching :
       th[t].m = BuildFailed =>
         /\ \A k \in 1 .. Len(th[t].log) : th[t].log[k] = BuildFailedPost
         /\ Len(th[t].log) <= callerMaxRetries + 1
         /\ th[t].pc = "done" =>
              /\ Len(th[t].log) = 1 + Len(th[t].slept)
              /\ \A k \in 1 .. Len(th[t].seen) - 1 :
                   th[t].seen[k] = statusTooManyRequests

C14_Witness ==
  /\ th[1].m = BuildFailed /\ th[1].pc = "done" /\ th[1].out = "ok"
  /\ th[1].log = << BuildFailedPost, BuildFailedPost >>
  /\ th[1].seen = << statusTooManyRequests, 200 >>

\* A message of a type that the switch of sendLarkAppMessage does not know.
UnknownAppType(m) == ToApp(m) /\ m.MsgType \notin AppMsgTypes

\* C15 as stated: a dispatch to an application target of a message of an
\* unknown type fails with the invalid-message-type error and sends no
\* request to the message API.
C15_Original ==
  \A t \in Dispatching :
    UnknownAppType(th[t].m) =>
      /\ RequestsTo(t, msgAPI) = {}
      /\ th[t].pc = "done" => th[t].out = "invalid_message_type"

\* C15 amended: a dispatch to an application target of a message of an
\* unknown type sends no request to the message API and fails: with the
\* missing-recipient error when SendTo is empty, with the token error when
\* the token does not resolve, and with the invalid-message-type error once
\* SendTo is non-empty and the token has been resolved.
C15_Amended ==
  \A t \in Dispatching :
    UnknownAppType(th[t].m) =>
      /\ RequestsTo(t, msgAPI) = {}
      /\ th[t].pc \notin {"send", "idle"}
      /\ th[t].pc = "done" =>
           th[t].out = IF th[t].m.SendTo = "" THEN "missing_recipient"
                       ELSE IF th[t].tok = 0 THEN "token_error"
                       ELSE "invalid_message_type"

C15_Witness ==
  /\ th[1].op = "dispatch" /\ th[1].out = "invalid_message_type"
  /\ th[1].m.MsgType = "" /\ th[1].app = "app" /\ th[1].tok > 0
  /\ RequestsTo(1, appTokenAPI) # {} /\ RequestsTo(1, msgAPI) = {}

\* The calls that resolve the token of an application target with a custom
\* Token function: Token(appName), and sendMsg once SendTo is checked.
ResolvingCustom ==
  {t \in Threads :
     /\ th[t].app \in customToken
     /\ \/ th[t].op = "token"
        \/ th[t].op = "dispatch" /\ ToApp(th[t].m) /\ th[t].m.SendTo # ""}

\* C18: a call that resolves the token of an application target that has a
\* custom Token function calls the function once, never reads or writes the
\* cache and never sends a request to the token API; the step in which the
\* function runs leaves the cache and the issued tokens alone.
C18_CustomToken ==
  /\ [](\A t \in ResolvingCustom :
           /\ th[t].cacheOps = 0 /\ ~th[t].hit
           /\ RequestsTo(t, appTokenAPI) = {}
           /\ th[t].fn = IF th[t].pc = "tok_fn" THEN 0 ELSE 1
           /\ th[t].tok \in {0, CustomToken})
  /\ [][\A t \in Threads :
         th[t].pc = "tok_fn" => (cache' = cache /\ ledger' = ledger)]_allvars

C18_Witness ==
  /\ th[1].op = "dispatch" /\ th[1].app = "capp" /\ th[1].calls = 2
  /\ th[1].out = "ok" /\ th[1].fn = 1 /\ th[1].tok = CustomToken
  /\ cache[tokenCacheKey].present
  /\ th[1].log[1].url = msgAPI /\ th[1].log[1].auth = CustomToken

\* ---------------------------------------------- claims on sendLarkAPIRequest
\* The goroutines inside or back from a direct call of sendLarkAPIRequest.
Requesting == {t \in Threads : th[t].op = "request"}
\* Every attempt so far was answered with status 429.
Only429(t) ==
  \A k \in 1 .. Len(th[t].seen) : th[t].seen[k] = statusTooManyRequests

C20_TransportError ==
  /\ [](\A t \in Requesting :
         \A k \in 1 .. Len(th[t].seen) :
           th[t].seen[k] = transportFailed =>
             /\ k = Len(th[t].seen)
             /\ th[t].pc = "done" /\ th[t].out = "transport"
             /\ th[t].res.body = NoBody
             /\ Len(th[t].slept) = k - 1
             /\ \A j \in 1 .. k - 1 : th[t].seen[j] = statusTooManyRequests)
  /\ [][\A t \in Threads :
         (th[t].op = "request" /\ th[t].out = "transport" /\ th'[t].op = "request"
            /\ th'[t].calls = th[t].calls) => th'[t] = th[t]]_allvars

C20_Witness ==
  /\ th[1].op = "request" /\ th[1].pc = "done" /\ th[1].out = "transport"
  /\ th[1].seen = << statusTooManyRequests, statusTooManyRequests, transportFailed >>
  /\ Len(th[1].slept) = 2

\* ------------------------------------------------------ claims on the tokens
\* The calls that resolve the token of the built-in application.
Resolving == {t \in Threads : th[t].op = "token" /\ th[t].app \notin customToken}

\* C16: a token that getToken returns from the cache is returned within the
\* expire seconds that the platform reported when it issued the token.
C16_NeverServedPastExpiry ==
  \A t \in Resolving :
    th[t].hit => th[t].at <= ledger[th[t].tok].at + ledger[th[t].tok].expire

\* C17: a getToken call that looks the token up while the token cached last
\* is within its time to live returns a token from the cache and sends no
\* request to the token API.
C17_NoReissueInWindow ==
  \A t \in Resolving :
    (th[t].live /\ th[t].pc # "tok_get") =>
      th[t].hit /\ RequestsTo(t, appTokenAPI) = {}

\* C21: an attempt that is answered with a status other than 429 is the last
\* one of the call: the call has returned that status and the body of the
\* response with no error, and has slept only after the 429 answers that
\* came before.
C21_OtherStatusReturned ==
  \A t \in Requesting :
    \A k \in 1 .. Len(th[t].seen) :
      th[t].seen[k] \notin {statusTooManyRequests, transportFailed} =>
        /\ k = Len(th[t].seen) /\ k = th[t].attempts
        /\ th[t].pc = "done" /\ th[t].out = "ok"
        /\ th[t].res.err = "none"
        /\ th[t].res.status = th[t].seen[k]
        /\ th[t].res.body \in MessageBodies
        /\ Len(th[t].slept) = k - 1

C21_Witness ==
  /\ th[1].op = "request" /\ th[1].pc = "done" /\ th[1].out = "ok"
  /\ th[1].seen = << statusTooManyRequests, 500 >>
  /\ th[1].res.status = 500 /\ th[1].res.body = RespBody(TRUE, 9499, 0, 0)
  /\ Len(th[1].slept) = 1

\* The seconds to sleep for the reset values that a 429 response carried: the
\* number when there is a value and it is one, 60 otherwise.
ResetSeconds(values) ==
  IF values = <<>> THEN 60
  ELSE IF values[1] = << "5" >> THEN 5
  ELSE 60

\* C22: the sleep before each retry lasts the number of seconds that the
\* rate-limit-reset header of the 429 response carried, and 60 seconds when
\* the response carried no such header or no number in it.
C22_SleepsForReset ==
  \A t \in Requesting :
    /\ Len(th[t].slept) = Len(th[t].resets)
    /\ \A k \in 1 .. Len(th[t].slept) :
         th[t].slept[k] = ResetSeconds(th[t].resets[k])

\* ------------------------------------------------------ claims on the cache
\* The GetString calls that have looked the key up.
Getting == {t \in Threads : th[t].op = "get"}
\* The step is the lookup of a GetString call of t.
Looks(t) == th'[t].op = "get" /\ th'[t].calls = th[t].calls + 1
\* The key holds an entry whose time to live has elapsed.
EntryElapsed ==
  /\ cache[tokenCacheKey].present
  /\ lastSet.expiration > 0 /\ clock > lastSet.at + lastSet.expiration

\* C23: a GetString that looks the key up after a SetString has completed,
\* while the stored value has neither expired nor been overwritten, returns
\* that value, whatever other GetString calls are doing.
C23_SafeUnderEviction ==
  \A t \in Getting :
    th[t].live => (th[t].pc = "done" /\ th[t].out = "value" /\ th[t].tok = th[t].want)

\* C24: a GetString that finds the entry's time to live elapsed deletes the
\* key and returns ErrKeyExpired; a GetString that looks the key up after
\* that, with no SetString in between, returns ErrKeyNotFound, and so does a
\* GetString on a key that was never set.
C24_ExpiredThenNotFound ==
  /\ [][\A t \in Threads :
         Looks(t) =>
           /\ EntryElapsed => th'[t].pc = "get_del"
           /\ (lastSet.n = 0 \/ lastSet.expired) =>
                (th'[t].pc = "done" /\ th'[t].out = "not_found")]_allvars
  /\ [][\A t \in Threads :
         (th[t].pc = "get_del" /\ th'[t].pc # "get_del") =>
           /\ th'[t].pc = "done" /\ th'[t].out = "expired"
           /\ ~cache'[tokenCacheKey].present]_allvars

C24_Witness ==
  /\ th[1].op = "get" /\ th[1].pc = "done" /\ th[1].out = "expired"
  /\ th[2].op = "get" /\ th[2].pc = "done" /\ th[2].out = "not_found"
  /\ th[2].want = 1 /\ lastSet.n = 1 /\ lastSet.expired
  /\ ~cache[tokenCacheKey].present

\* C25: a GetString that looks the key up after a SetString with expiration
\* 0, before any other SetString, returns the value of that SetString.
C25_ZeroNeverExpires ==
  \A t \in Getting :
    th[t].never => (th[t].pc = "done" /\ th[t].out = "value" /\ th[t].tok = th[t].want)

\* C26: a GetString that looks the key up after the key has been set again
\* returns the value set last as long as the expiration of that last
\* SetString allows, whatever the expiration of the entry it replaced.
C26_OverwriteReplaces ==
  \A t \in Getting :
    (th[t].want >= 2 /\ th[t].live) =>
      (th[t].pc = "done" /\ th[t].out = "value" /\ th[t].tok = th[t].want)

\* ------------------------------------------------- claims on configuration
Constructed == built.called /\ built.err = ""
ConfiguredNames == config.BotWebhooks \cup DOMAIN config.Larks

\* C27: New returns an error for every Config whose DefaultSendChannelName
\* is neither a key of BotWebhooks nor a key of Larks, so that in every
\* notify it returns the default channel is one of its targets and a message
\* without a channel name is routed to a target.
C27_DefaultResolves ==
  /\ built.called /\ config.DefaultSendChannelName \notin ConfiguredNames
       => built.err # ""
  /\ Constructed
       => built.n.defaultSendChannelName
            \in built.n.botWebhooks \cup DOMAIN built.n.apps
  /\ Constructed /\ routed.sent /\ routed.name = "" => routed.kind # "none"

\* C28: in every notify New returns, no name is both a key of botWebhooks
\* and a key of apps.
C28_NamesInOneVariant ==
  Constructed => built.n.botWebhooks \cap DOMAIN built.n.apps = {}

\* A Lark that names a platform and carries complete credentials: AppID and
\* AppSecret come as a pair, and there is a Token function or the pair.
ValidLark(l) ==
  /\ l.AppType \in {"feishu", "lark"}
  /\ (l.AppID = "") = (l.AppSecret = "")
  /\ l.Token \/ l.AppID # ""

\* A Config with exactly one target, named as the default, and sizes that
\* are not negative.
OneWebhookDefault ==
  /\ config.BotWebhooks = {config.DefaultSendChannelName}
  /\ DOMAIN config.Larks = {}
  /\ config.ChannelSize >= 0 /\ config.PoolSize >= 0

OneAppDefault ==
  /\ config.BotWebhooks = {}
  /\ DOMAIN config.Larks = {config.DefaultSendChannelName}
  /\ ValidLark(config.Larks[config.DefaultSendChannelName])
  /\ config.ChannelSize >= 0 /\ config.PoolSize >= 0

\* C29: New returns an error and no notify when the Config has neither a
\* webhook nor a Lark, or when its DefaultSendChannelName is empty; New
\* returns a notify and no error for a Config whose one target, a webhook or
\* a valid Lark, is named as the default.
C29_NewValidates ==
  /\ built.called /\ (ConfiguredNames = {} \/ config.DefaultSendChannelName = "")
       => built.err # "" /\ built.n = NoNotify
  /\ built.called /\ (OneWebhookDefault \/ OneAppDefault)
       => built.err = "" /\ built.n # NoNotify

\* New has built a notify for a Config whose one Lark, with an AppID and an
\* AppSecret and no Token function, is the default.
C29_Witness ==
  /\ Constructed
  /\ OneAppDefault
  /\ built.n.apps[config.DefaultSendChannelName].token = "getToken"

\* ------------------------------------------------------ claims on the Manager
\* C30: Manager.submit returns a non-nil error whenever the SubmitMessage of
\* one of the channels it submitted to returned an error, as Lark's does
\* when the card cannot be rendered.
C30_SubmitErrorReturned ==
  mgr.res.done /\ mgr.res.chanErrs > 0 => mgr.res.err # ""

\* C31: Send, Info, Success, Error and Warn with an empty title and an empty
\* content return InvalidParams and no message ID, take no sequence number
\* and leave the queue of every dispatcher as it was.
C31_EmptyRejected ==
  [][(\E level \in ManagerLevels, sendTo \in {"", "u"},
         channels \in ChannelLists :
        ManagerSend(level, sendTo, <<>>, <<>>, channels))
       => /\ mgr'.res.err = InvalidParams
          /\ mgr'.res.msgID = ""
          /\ mgr'.index = mgr.index
          /\ mgr'.lark = mgr.lark
          /\ mgr'.ding = mgr.ding]_allvars

\* A call has returned InvalidParams.
C31_Witness == mgr.res.done /\ mgr.res.err = InvalidParams /\ mgr.sends > 0

\* C34: every message that submit has handed to the Lark dispatcher with a
\* content that is not empty carries the message type "text" or the
\* rewritten "interactive" when it is dispatched.
C34_SupportedType ==
  \A k \in 1 .. Len(mgr.lark) :
    mgr.lark[k].Content.text # <<>>
      => mgr.lark[k].MsgType \in {"text", "interactive"}

\* ------------------------------------------------------ claims on the cards
\* The mapping as the specification words it.
ColorOf(level) ==
  IF level = "success" THEN "green"
  ELSE IF level = "error" THEN "red"
  ELSE IF level = "warn" THEN "yellow"
  ELSE "blue"

\* C32: the color of a rendered card is green for success, red for error,
\* yellow for warn and blue for every other level, "info" and the empty
\* string included: in every card that waits in Lark's queue, and in the
\* card generateTextCardMsgWithLevel renders for each level.
C32_ColorTotal ==
  /\ \A k \in 1 .. Len(mgr.lark) :
       mgr.lark[k].Content.kind = "card"
         => mgr.lark[k].Content.color = ColorOf(mgr.lark[k].MsgLevel)
  /\ mgr.made =>
       \A level \in ManagerLevels :
         LET r == generateTextCardMsgWithLevel(level, <<"a">>, <<"a">>)
         IN ~r.err /\ r.card.color = ColorOf(level)

\* Cards of a warn message wait in Lark's queue, yellow.
C32_Witness ==
  \E k \in 1 .. Len(mgr.lark) :
    /\ mgr.lark[k].Content.kind = "card"
    /\ mgr.lark[k].MsgLevel = "warn"
    /\ mgr.lark[k].Content.color = "yellow"

\* ---------------------------------------------------- claims on the WaitGroup
\* C33: in every state the WaitGroup counter is the number of messages that
\* were counted by n.wg.Add and whose worker has not finished (those about
\* to be invoked and those in flight): it is never negative and never
\* positive with no dispatch pending.
C33_CounterIsPending ==
  /\ wg >= 0
  /\ wg = Cardinality(cons.invoke) + Cardinality(inflight)

\* ---------------------------------------------------- claims on getToken
\* What sendLarkAPIRequest brought getToken is no token: the request
\* failed, or the body does not parse or carries a code that is not 0.
NoTokenIn(res) ==
  IF res.err # "none" THEN TRUE
  ELSE ~res.body.json \/ res.body.code # 0

\* C35: when the request for a token fails or is answered with a code that
\* is not 0, getToken returns an error and the cache is as it was, without
\* an entry for the application; and a resolve that finds no entry requests
\* a token from the endpoint again.
C35_FailureLeavesCache ==
  /\ [][th[1].pc = "tok_req" /\ th'[1].pc # "tok_req" /\ NoTokenIn(th'[1].res)
          => /\ th'[1].pc = "done"
             /\ th'[1].out = "token_error"
             /\ cache' = cache
             /\ ~cache'[tokenCacheKey].present]_allvars
  /\ [][th[1].pc = "tok_get" /\ th'[1].pc # "tok_get"
          /\ ~cache[tokenCacheKey].present
          => /\ th'[1].pc = "tok_req"
             /\ th'[1].req = TokenRequest]_allvars

\* getToken was answered with a code that is not 0 and has returned an
\* error: the cache holds no entry.
C35_Witness ==
  /\ th[1].pc = "done"
  /\ th[1].out = "token_error"
  /\ th[1].fn = 0
  /\ th[1].res.err = "none"
  /\ th[1].res.body.json
  /\ th[1].res.body.code # 0
  /\ ~cache[tokenCacheKey].present

\* A Token call that missed the cache and returned a token.
MissedAndGot(t) ==
  /\ th[t].op = "token"
  /\ th[t].pc = "done"
  /\ th[t].out = "ok"
  /\ ~th[t].hit

\* C36: callers that miss the cache at the same time are not deduplicated:
\* each of them has sent its own request to the token endpoint and returns
\* the token of its own response, and once every caller has finished the
\* cache holds the token that was stored last.
C36_EachMissIssues ==
  /\ \A t \in Threads :
       MissedAndGot(t)
         => /\ th[t].attempts >= 1
            /\ th[t].log[Len(th[t].log)] = TokenRequest
            /\ th[t].res.err = "none"
            /\ th[t].tok = th[t].res.body.token
  /\ (\A t \in Threads : th[t].pc \in {"idle", "done"}) /\ lastSet.n > 0
       => /\ cache[tokenCacheKey].present
          /\ cache[tokenCacheKey].value = lastSet.value

\* Two callers missed the empty cache in their first call, each was issued
\* a token of its own, and the cache holds the one stored last, which is
\* not the one issued last.
C36_Witness ==
  /\ MissedAndGot(1) /\ MissedAndGot(2)
  /\ th[1].calls = 1 /\ th[2].calls = 1
  /\ th[1].tok # th[2].tok
  /\ cache[tokenCacheKey].value = lastSet.value
  /\ lastSet.value # Len(ledger)

\* ------------------------------------------------------- claims on msgid.ID
\* C37: a call of New whose increment wraps the sequence number to 0 goes on
\* to update the prefix, reset the sequence and return: it never waits in
\* updatePrefix for a mutex that it holds itself.
C37_WrapCompletes ==
  \A t \in Threads : th[t].pc = "id_update" => mgr.id.mu # t

\* ---------------------------------------------- claims on the credentials
\* New returns a notify for the Config.
Accepted(c) == \A procs \in Procs : NewErrors(c, procs) = {""}

\* C38: for a Config with Larks, New accepts it exactly when it accepts the
\* same Config with any other set of webhooks, none included: the verdict on
\* the credentials of a Lark does not depend on the webhooks.
C38_CredentialsAlone ==
  built.called /\ DOMAIN config.Larks # {} /\ config.DefaultSendChannelName # ""
    => \A w \in SUBSET TargetNames :
         Accepted([config EXCEPT !.BotWebhooks = w]) = (built.err = "")

\* ------------------------------------------------- claims on the webhooks
\* sendMsg has returned for a message sent to a webhook target with a
\* MsgType that the switch of sendBotWebhookMessage does not name.
UnknownTypeSent ==
  /\ th[1].op = "dispatch"
  /\ th[1].pc = "done"
  /\ ChannelKind(th[1].app) = "webhook"
  /\ th[1].m.MsgType \notin {"text", "post", "share_chat", "image", "interactive"}

\* The POST that carries the msg_type and neither a content nor a card.
BarePost == Request(WebhookURL(th[1].app), 0, [msg_type |-> th[1].m.MsgType])

\* C39 as stated: such a message is not rejected and exactly one POST is
\* issued to the webhook, with the msg_type and neither content nor card.
C39_Original ==
  UnknownTypeSent => th[1].log = << BarePost >>

\* C39 amended: such a message is not rejected; a POST with the msg_type and
\* neither content nor card is issued to the webhook, once, and once more
\* after each answer 429, up to the three retries of sendLarkAPIRequest.
C39_Amended ==
  UnknownTypeSent
    => /\ Len(th[1].log) >= 1
       /\ Len(th[1].log) <= callerMaxRetries + 1
       /\ \A k \in 1 .. Len(th[1].log) : th[1].log[k] = BarePost
       /\ Len(th[1].seen) = Len(th[1].log)
       /\ \A k \in 1 .. Len(th[1].seen) - 1 :
            th[1].seen[k] = statusTooManyRequests

\* A message of an unknown type went to the webhook in one POST that was
\* answered.
C39_Witness ==
  /\ UnknownTypeSent
  /\ th[1].m.MsgType = "bogus"
  /\ th[1].log = << BarePost >>
  /\ th[1].out = "ok"

\* ------------------------------------------------------ claims on the order
\* The messages the consumers hold between the receive and pool.Invoke.
HeldItems == cons.add \cup cons.invoke

====
